---- MODULE Spec2Model ----
(***************************************************************************)
(* Price-fairness core of CarApp's backend: the service price catalog      *)
(* (crowd quotes and rollups), the statistics helpers, the rate resolver   *)
(* and the AI comparison route.                                            *)
(*                                                                         *)
(* Numbers.  Prices are whole currency units.  median/quantile results are *)
(* kept in quarter units (value * 4): with whole prices and q a multiple   *)
(* of 1/4 every intermediate value of the JavaScript code is a multiple of *)
(* 1/4 and is exact in binary floating point.  avgUserPrice is kept in     *)
(* hundredths, the precision recomputeRollups rounds to.                   *)
(***************************************************************************)
EXTENDS Integers, Sequences, FiniteSets, TLC

(* ------------------------------ bounds -------------------------------- *)
NumCallers == 2      \* concurrent upsertCatalogQuote callers
MaxQuotes  == 5      \* quotes accepted over one behaviour
MaxLen     == 5      \* longest price list handed to median / quantile
MaxItems   == 2      \* line items in one compare request
MaxWords   == 2      \* words a label handed to a normalizer is made of
MaxSends   == 3      \* send-message requests that store something

Callers == 1..NumCallers

(* --------------------------- JS special values ------------------------ *)
Null == -1           \* JavaScript null / undefined in a numeric slot
NaN  == -2           \* JavaScript NaN in a numeric slot

(* ------------------------------ strings ------------------------------- *)
CharAt(s, i) == SubSeq(s, i, i)

Includes(s, sub) ==
    \E i \in 1..(Len(s) - Len(sub) + 1) : SubSeq(s, i, i + Len(sub) - 1) = sub

UpperChars == "ABCDEFGHIJKLMNOPQRSTUVWXYZ"
LowerChars == "abcdefghijklmnopqrstuvwxyz"
SlugChars  == "abcdefghijklmnopqrstuvwxyz0123456789_"

LowerChar(c) ==
    IF \E i \in 1..Len(UpperChars) : CharAt(UpperChars, i) = c
    THEN CharAt(LowerChars, CHOOSE i \in 1..Len(UpperChars) : CharAt(UpperChars, i) = c)
    ELSE c

RECURSIVE toLowerCase(_)
toLowerCase(s) ==
    IF Len(s) = 0 THEN ""
    ELSE LowerChar(CharAt(s, 1)) \o toLowerCase(SubSeq(s, 2, Len(s)))

IsSlugChar(c) == \E i \in 1..Len(SlugChars) : CharAt(SlugChars, i) = c

\* mutant: the runs of other characters are removed
RECURSIVE SlugDropping(_, _, _)
SlugDropping(s, i, inRun) ==
    IF i > Len(s) THEN ""
    ELSE IF IsSlugChar(CharAt(s, i))
         THEN CharAt(s, i) \o SlugDropping(s, i + 1, FALSE)
         ELSE SlugDropping(s, i + 1, TRUE)

\* s.replace(/[^a-z0-9_]+/g, "_"): each maximal run of other characters
\* becomes one underscore.  inRun: the previous character was in such a run.
RECURSIVE SlugFrom(_, _, _)
SlugFrom(s, i, inRun) ==
    IF i > Len(s) THEN ""
    ELSE IF IsSlugChar(CharAt(s, i))
         THEN CharAt(s, i) \o SlugFrom(s, i + 1, FALSE)
         ELSE (IF inRun THEN "" ELSE "_") \o SlugFrom(s, i + 1, TRUE)

Slug(s) == SlugFrom(s, 1, FALSE)

\* normalizeServiceKey of routes/inspections.js (resolver and writer)
normalizeServiceKey(raw) ==
    LET s == toLowerCase(raw) IN
    IF Includes(s, "oil") THEN "oil_change"
    ELSE IF Includes(s, "brake") THEN "brake_pads"
    ELSE IF Includes(s, "air filter") \/ Includes(s, "engine filter") THEN "air_filter"
    ELSE IF Includes(s, "cabin") \/ Includes(s, "pollen") THEN "cabin_filter"
    ELSE IF Includes(s, "coolant") \/ Includes(s, "radiator") THEN "coolant"
    ELSE IF Includes(s, "tire") \/ Includes(s, "tyre") THEN "tires"
    ELSE IF Includes(s, "spark") THEN "spark_plugs"
    ELSE IF Includes(s, "transmission") THEN "transmission_fluid"
    ELSE IF Includes(s, "battery") THEN "battery"
    ELSE IF Includes(s, "wiper") THEN "wiper_blades"
    ELSE Slug(s)

\* the labels the callers of the model pass, normalized once
WriterKeys  == {"Oil Change", ""}
ResolveKeys == {"Oil change", "Brake Rotor", "detailing", "constructor", ""}

NormalizedKey == [raw \in WriterKeys \cup ResolveKeys |-> normalizeServiceKey(raw)]

(* ------------------------- heuristic rate table ----------------------- *)
Row(mn, av, mx) == [min |-> mn, avg |-> av, max |-> mx]

\* TABLE[k]: the eleven own entries.  TABLE is a plain object literal, so
\* the lower-case names it inherits from Object.prototype ("constructor",
\* "__proto__") are found too; such a value is truthy and has no
\* min/avg/max, which Math.round turns into NaN.
TableKeys ==
    {"oil_change", "brake_pads", "rotors", "tires", "air_filter", "cabin_filter",
     "coolant", "spark_plugs", "transmission_fluid", "battery", "wiper_blades"}

InheritedKeys == {"constructor", "__proto__"}

TABLE(k) ==
    CASE k = "oil_change"         -> Row(40, 55, 80)
      [] k = "brake_pads"         -> Row(100, 225, 350)
      [] k = "rotors"             -> Row(300, 500, 700)
      [] k = "tires"              -> Row(600, 800, 1000)
      [] k = "air_filter"         -> Row(25, 45, 60)
      [] k = "cabin_filter"       -> Row(20, 40, 60)
      [] k = "coolant"            -> Row(120, 185, 250)
      [] k = "spark_plugs"        -> Row(50, 80, 120)
      [] k = "transmission_fluid" -> Row(130, 185, 250)
      [] k = "battery"            -> Row(120, 185, 250)
      [] k = "wiper_blades"       -> Row(20, 35, 50)
      [] OTHER                    -> Row(NaN, NaN, NaN)

DefaultRow == Row(120, 180, 250)

HeuristicRow(k) ==
    IF k \in TableKeys \cup InheritedKeys THEN TABLE(k)
    ELSE IF Includes(k, "rotor") THEN TABLE("rotors")
    ELSE IF Includes(k, "brake") THEN TABLE("brake_pads")
    ELSE IF Includes(k, "tire") \/ Includes(k, "tyre") THEN TABLE("tires")
    ELSE IF Includes(k, "cabin") THEN TABLE("cabin_filter")
    ELSE IF Includes(k, "air") /\ Includes(k, "filter") THEN TABLE("air_filter")
    ELSE IF Includes(k, "spark") THEN TABLE("spark_plugs")
    ELSE IF Includes(k, "transmission") THEN TABLE("transmission_fluid")
    ELSE IF Includes(k, "coolant") \/ Includes(k, "radiator") THEN TABLE("coolant")
    ELSE IF Includes(k, "battery") THEN TABLE("battery")
    ELSE IF Includes(k, "wiper") THEN TABLE("wiper_blades")
    ELSE DefaultRow

computeHeuristicRate(key) ==
    LET k   == toLowerCase(key)
        row == HeuristicRow(k)
    IN  [raised      |-> FALSE,
         key         |-> k,
         avgPrice    |-> row.avg,
         rangeMin    |-> row.min,
         rangeMax    |-> row.max,
         currency    |-> "USD",
         source      |-> "heuristic",
         quotesCount |-> Null]

\* computeHeuristicRate for the keys the model's labels normalize to
HeuristicRate ==
    [k \in {NormalizedKey[raw] : raw \in ResolveKeys} |-> computeHeuristicRate(k)]

(* --------------------------- statistics helpers ----------------------- *)
RECURSIVE Insert(_, _)
Insert(x, a) ==
    IF Len(a) = 0 THEN <<x>>
    ELSE IF x <= Head(a) THEN <<x>> \o a
    ELSE <<Head(a)>> \o Insert(x, Tail(a))

\* mutant: the copy is used as submitted, never sorted
SortAscSkipped(nums) == nums

\* [...nums].sort((x, y) => x - y)
RECURSIVE SortAsc(_)
SortAsc(nums) ==
    IF Len(nums) = 0 THEN <<>> ELSE Insert(Head(nums), SortAsc(Tail(nums)))

\* median(nums), in quarter units
median(nums) ==
    IF Len(nums) = 0 THEN Null
    ELSE LET a   == SortAsc(nums)
             mid == Len(a) \div 2          \* 0-based index
         IN  IF Len(a) % 2 = 1
             THEN 4 * a[mid + 1]
             ELSE 2 * (a[mid] + a[mid + 1])

\* mutant: the position is counted from the top of the sorted copy
quantileFromTop(nums, qn) ==
    IF Len(nums) = 0 THEN Null
    ELSE LET a    == SortAsc(nums)
             pos4 == (Len(a) - 1) * (4 - qn)
             base == pos4 \div 4
             rest == pos4 % 4
         IN  4 * a[base + 1]
             + (IF base + 2 <= Len(a) THEN rest * (a[base + 2] - a[base + 1]) ELSE 0)

\* quantile(nums, q) with q = qn / 4, in quarter units
quantile(nums, qn) ==
    IF Len(nums) = 0 THEN Null
    ELSE LET a    == SortAsc(nums)
             pos4 == (Len(a) - 1) * qn      \* pos * 4
             base == pos4 \div 4            \* Math.floor(pos), 0-based
             rest == pos4 % 4               \* (pos - base) * 4
         IN  4 * a[base + 1]
             + (IF base + 2 <= Len(a) THEN rest * (a[base + 2] - a[base + 1]) ELSE 0)

\* Math.round of a value given in quarter units (ties go up)
Round4(v4) == (v4 + 2) \div 4

Max(a, b) == IF a >= b THEN a ELSE b

(* ------------------------------ catalog ------------------------------- *)
EntryKey == "oil_change"     \* the catalog entry the model follows

NoRange == [present |-> FALSE, min |-> 0, max |-> 0]

NoDoc ==
    [exists |-> FALSE, currency |-> "", baseRange |-> NoRange, userQuotes |-> <<>>,
     quotesCount |-> 0, avgUserPrice |-> Null,
     fairCount |-> 0, overpricedCount |-> 0, unknownCount |-> 0]

\* a curated entry with schema defaults and no quotes yet
SeededDoc(range) ==
    [NoDoc EXCEPT !.exists = TRUE, !.currency = "USD", !.baseRange = range]

PricesOf(doc) == [i \in 1..Len(doc.userQuotes) |-> doc.userQuotes[i].price]

RECURSIVE SumSeq(_)
SumSeq(s) == IF Len(s) = 0 THEN 0 ELSE Head(s) + SumSeq(Tail(s))

CountDecision(quotes, d) == Cardinality({i \in 1..Len(quotes) : quotes[i].aiDecision = d})

\* Math.round((sum / n) * 100) / 100, in hundredths
Mean100(prices) == (200 * SumSeq(prices) + Len(prices)) \div (2 * Len(prices))

\* recomputeRollups(doc): the pre-save hook
recomputeRollups(doc) ==
    LET quotes == doc.userQuotes IN
    [doc EXCEPT
       !.quotesCount     = Len(quotes),
       !.avgUserPrice    = IF Len(quotes) > 0 THEN Mean100(PricesOf(doc)) ELSE Null,
       !.fairCount       = CountDecision(quotes, "fair"),
       !.overpricedCount = CountDecision(quotes, "overpriced"),
       !.unknownCount    = Len(quotes) - CountDecision(quotes, "fair")
                                       - CountDecision(quotes, "overpriced")]

\* mutant: only Number.isFinite(n) is tested
IsFinite(n) == n # NaN

\* Number.isFinite(n) && n > 0
IsPositive(n) == n # NaN /\ n > 0

\* mutant: the curated baseline is consulted before the crowd quotes
getCatalogRateBaseFirst(key, loaded, doc, fails) ==
    LET k      == NormalizedKey[key]
        prices == SelectSeq(PricesOf(doc), IsPositive)
    IN  IF loaded /\ ~fails /\ doc.exists /\ doc.baseRange.present
        THEN [raised      |-> FALSE,
              key         |-> k,
              avgPrice    |-> (doc.baseRange.min + doc.baseRange.max + 1) \div 2,
              rangeMin    |-> doc.baseRange.min,
              rangeMax    |-> doc.baseRange.max,
              currency    |-> IF doc.currency # "" THEN doc.currency ELSE "PKR",
              source      |-> "catalog:base_range",
              quotesCount |-> Len(prices)]
        ELSE IF loaded /\ ~fails /\ doc.exists /\ Len(prices) >= 5
        THEN [raised      |-> FALSE,
              key         |-> k,
              avgPrice    |-> Round4(median(prices)),
              rangeMin    |-> Max(0, Round4(quantile(prices, 1))),
              rangeMax    |-> Round4(quantile(prices, 3)),
              currency    |-> IF doc.currency # "" THEN doc.currency ELSE "PKR",
              source      |-> "catalog:user_quotes",
              quotesCount |-> Len(prices)]
        ELSE HeuristicRate[k]

\* mutant: the crowd band needs more than 5 quotes
getCatalogRateStrictGate(key, loaded, doc, fails) ==
    LET k      == NormalizedKey[key]
        prices == SelectSeq(PricesOf(doc), IsPositive)
    IN  IF loaded /\ ~fails /\ doc.exists /\ Len(prices) > 5
        THEN [raised      |-> FALSE,
              key         |-> k,
              avgPrice    |-> Round4(median(prices)),
              rangeMin    |-> Max(0, Round4(quantile(prices, 1))),
              rangeMax    |-> Round4(quantile(prices, 3)),
              currency    |-> IF doc.currency # "" THEN doc.currency ELSE "PKR",
              source      |-> "catalog:user_quotes",
              quotesCount |-> Len(prices)]
        ELSE IF loaded /\ ~fails /\ doc.exists /\ doc.baseRange.present
        THEN [raised      |-> FALSE,
              key         |-> k,
              avgPrice    |-> (doc.baseRange.min + doc.baseRange.max + 1) \div 2,
              rangeMin    |-> doc.baseRange.min,
              rangeMax    |-> doc.baseRange.max,
              currency    |-> IF doc.currency # "" THEN doc.currency ELSE "PKR",
              source      |-> "catalog:base_range",
              quotesCount |-> Len(prices)]
        ELSE HeuristicRate[k]

(* ------------------------------ resolver ------------------------------ *)
\* getCatalogRateForKey(key, label).  loaded: the ServicePriceCatalog model
\* was imported; doc: what findOne({key: k}) finds; fails: findOne rejects.
getCatalogRateForKey(key, loaded, doc, fails) ==
    LET k      == NormalizedKey[key]
        prices == SelectSeq(PricesOf(doc), IsPositive)
    IN  IF loaded /\ ~fails /\ doc.exists /\ Len(prices) >= 5
        THEN [raised      |-> FALSE,
              key         |-> k,
              avgPrice    |-> Round4(median(prices)),
              rangeMin    |-> Max(0, Round4(quantile(prices, 1))),
              rangeMax    |-> Round4(quantile(prices, 3)),
              currency    |-> IF doc.currency # "" THEN doc.currency ELSE "PKR",
              source      |-> "catalog:user_quotes",
              quotesCount |-> Len(prices)]
        ELSE IF loaded /\ ~fails /\ doc.exists /\ doc.baseRange.present
        THEN [raised      |-> FALSE,
              key         |-> k,
              avgPrice    |-> (doc.baseRange.min + doc.baseRange.max + 1) \div 2,
              rangeMin    |-> doc.baseRange.min,
              rangeMax    |-> doc.baseRange.max,
              currency    |-> IF doc.currency # "" THEN doc.currency ELSE "PKR",
              source      |-> "catalog:base_range",
              quotesCount |-> Len(prices)]
        ELSE HeuristicRate[k]

(* --------------------------- GET /prices/:key -------------------------- *)
\* what the handler answers.  status 400 / 500 carry no rate; avgPrice100 is
\* in hundredths (doc.avgUserPrice has two decimals); raw is the document
\* the answer was computed from, echoed as "raw".
Inspection(status, source, avg100, mn, mx, currency, count, doc) ==
    [status |-> status, source |-> source, avgPrice100 |-> avg100, rangeMin |-> mn,
     rangeMax |-> mx, currency |-> currency, quotesCount |-> count, raw |-> doc]

HeuristicInspection(k) ==
    LET h == HeuristicRate[k]
    IN  Inspection(200, "heuristic", 100 * h.avgPrice, h.rangeMin, h.rangeMax,
                   h.currency, Null, NoDoc)

\* the handler of GET /prices/:key.  loaded: the ServicePriceCatalog model
\* was imported; doc: what findOne({key}) finds; fails: findOne rejects.
getPricesKey(key, loaded, doc, fails) ==
    LET k        == NormalizedKey[key]
        prices   == SelectSeq(PricesOf(doc), IsPositive)
        currency == IF doc.currency # "" THEN doc.currency ELSE "PKR"
    IN  IF k = "" THEN Inspection(400, "none", Null, Null, Null, "", Null, NoDoc)
        ELSE IF ~loaded THEN HeuristicInspection(k)
        ELSE IF fails THEN Inspection(500, "none", Null, Null, Null, "", Null, NoDoc)
        ELSE IF ~doc.exists THEN HeuristicInspection(k)
        ELSE IF Len(prices) >= 5
        THEN Inspection(200, "catalog:user_quotes", 100 * Round4(median(prices)),
                        Round4(quantile(prices, 1)), Round4(quantile(prices, 3)),
                        currency, Len(prices), doc)
        ELSE IF doc.baseRange.present
        THEN Inspection(200, "catalog:base_range",
                        100 * ((doc.baseRange.min + doc.baseRange.max + 1) \div 2),
                        doc.baseRange.min, doc.baseRange.max, currency, Len(prices), doc)
        ELSE Inspection(200, "catalog", doc.avgUserPrice, Null, Null,
                        currency, Len(prices), doc)

(* ----------------------- pricing routes: helpers ---------------------- *)
\* normalizeServiceKey of routes/pricingCatalog.js (compare, assess-quote)
pricingNormalizeServiceKey(raw) ==
    LET s == toLowerCase(raw) IN
    IF s = "" THEN ""
    ELSE IF Includes(s, "oil") THEN "oil_change"
    ELSE IF Includes(s, "brake") /\ Includes(s, "rotor") THEN "rotors"
    ELSE IF Includes(s, "brake") THEN "brake_pads"
    ELSE IF Includes(s, "air filter") \/ Includes(s, "engine filter") THEN "air_filter"
    ELSE IF Includes(s, "cabin") \/ Includes(s, "pollen") THEN "cabin_filter"
    ELSE IF Includes(s, "coolant") \/ Includes(s, "radiator") THEN "coolant"
    ELSE IF Includes(s, "tire") \/ Includes(s, "tyre") THEN "tires"
    ELSE IF Includes(s, "spark") THEN "spark_plugs"
    ELSE IF Includes(s, "transmission") THEN "transmission_fluid"
    ELSE IF Includes(s, "battery") THEN "battery"
    ELSE IF Includes(s, "wiper") THEN "wiper_blades"
    ELSE Slug(s)

CompareLabels == {"Oil change", "Brake Rotor", "Tires", ""}

PricingKey == [raw \in CompareLabels |-> pricingNormalizeServiceKey(raw)]

(* Provider output is a sequence of tokens: "{" "}" "[" "]", the literals  *)
(* "null" and "7", "txt" for prose without braces, and one token for each  *)
(* member of an object: "d:<value>" for "decision", "c:<value>" for        *)
(* "confidence", "r:<value>" for "inferred_fair_range".                    *)
MemberTokens ==
    {"d:fair", "d:FAIR", "d:overpriced", "d:cheap", "d:Unknown", "d:7",
     "c:1.4", "c:0.5", "c:-0.3", "c:high",
     "r:EUR", "r:{}", "r:text"}

\* the member a token stands for: its name, the typeof of its value, the
\* value as a string (for a range: the currency it states) and as a number
\* (a confidence, in hundredths)
MemberOf(field, type, str, num) == [field |-> field, type |-> type, str |-> str, num |-> num]

Member(tok) ==
    CASE tok = "d:7"    -> MemberOf("decision", "number", "", 7)
      [] tok = "c:1.4"  -> MemberOf("confidence", "number", "", 140)
      [] tok = "c:0.5"  -> MemberOf("confidence", "number", "", 50)
      [] tok = "c:-0.3" -> MemberOf("confidence", "number", "", -30)
      [] tok = "c:high" -> MemberOf("confidence", "string", "high", 0)
      [] tok = "r:EUR"  -> MemberOf("inferred_fair_range", "object", "EUR", 0)
      [] tok = "r:{}"   -> MemberOf("inferred_fair_range", "object", "", 0)
      [] tok = "r:text" -> MemberOf("inferred_fair_range", "string", "text", 0)
      [] OTHER          -> MemberOf("decision", "string", SubSeq(tok, 3, Len(tok)), 0)

NoValue == [ok |-> FALSE, kind |-> "none", members |-> <<>>]
Value(kind, members) == [ok |-> TRUE, kind |-> kind, members |-> members]

\* JSON.parse(text): ok = FALSE when it throws
\* (an array holds no object or one; it has none of the named members)
IsObjectText(text) ==
    /\ Len(text) >= 2
    /\ text[1] = "{"
    /\ text[Len(text)] = "}"
    /\ \A i \in 2..(Len(text) - 1) : text[i] \in MemberTokens

JSONParse(text) ==
    IF text = <<"null">> THEN Value("null", <<>>)
    ELSE IF text = <<"7">> THEN Value("number", <<>>)
    ELSE IF text = <<"[", "]">> THEN Value("array", <<>>)
    ELSE IF /\ Len(text) >= 4
            /\ text[1] = "["
            /\ text[Len(text)] = "]"
            /\ IsObjectText(SubSeq(text, 2, Len(text) - 1))
         THEN Value("array", <<>>)
    ELSE IF IsObjectText(text)
         THEN Value("object", SubSeq(text, 2, Len(text) - 1))
    ELSE NoValue

\* text.indexOf(tok) and text.lastIndexOf(tok), from 1; 0 when absent
IndexOf(text, tok) ==
    IF \E i \in 1..Len(text) : text[i] = tok
    THEN CHOOSE i \in 1..Len(text) : text[i] = tok /\ \A j \in 1..(i - 1) : text[j] # tok
    ELSE 0

LastIndexOf(text, tok) ==
    IF \E i \in 1..Len(text) : text[i] = tok
    THEN CHOOSE i \in 1..Len(text) : text[i] = tok /\ \A j \in (i + 1)..Len(text) : text[j] # tok
    ELSE 0

\* tryExtractJsonBlock(text): the parsed slice, or null
tryExtractJsonBlock(text) ==
    LET start == IndexOf(text, "{")
        end   == LastIndexOf(text, "}")
    IN  IF start >= 1 /\ end > start
        THEN LET v == JSONParse(SubSeq(text, start, end))
             IN  IF v.ok THEN v ELSE Value("null", <<>>)
        ELSE Value("null", <<>>)

\* parsed[field]: the member of that name written last; type "undefined"
\* when the object has none
Property(members, field) ==
    LET at == {i \in 1..Len(members) : Member(members[i]).field = field}
    IN  IF at = {} THEN MemberOf(field, "undefined", "", 0)
        ELSE Member(members[CHOOSE i \in at : \A j \in at : j <= i])

Decisions == {"fair", "overpriced", "unknown"}

DEFAULT_CURRENCY == "USD"

\* mutant: the upper clamp is dropped
KeepSecond(a, b) == b

Min(a, b) == IF a <= b THEN a ELSE b

NoAssess ==
    [kind |-> "none", status |-> Null, decision |-> "", provider |-> "none",
     confidence |-> 0, hasRange |-> FALSE, rangeCurrency |-> "", raw |-> <<>>,
     attempts |-> 0]

\* the error assessWithGeminiFlash throws; attempts counts the
\* model.generateContent calls made before it (none without a client)
AssessError(status, provider, raw) ==
    [NoAssess EXCEPT !.kind = "error", !.status = status, !.provider = provider, !.raw = raw,
                     !.attempts = IF provider = "none" THEN 0 ELSE 1]

\* assessWithGeminiFlash(payload).  configured: genAI is set; outcome: what
\* model.generateContent / response.text() does, a thrown error (with the
\* status the SDK put on it, if any) or the returned text.
\* kind "error": the call throws an error carrying status (Null: none).
\* confidence is in hundredths; raw is the text the provider returned.
assessWithGeminiFlash(configured, outcome) ==
    IF ~configured
    THEN AssessError(503, "none", <<>>)
    ELSE IF outcome.kind = "throw"
    THEN AssessError(outcome.status, "throw", <<>>)
    ELSE LET strict == JSONParse(outcome.text)
             parsed == IF strict.ok THEN strict ELSE tryExtractJsonBlock(outcome.text)
         IN  IF parsed.kind \notin {"object", "array"}
             THEN AssessError(502, "text", outcome.text)
             ELSE LET dm == Property(parsed.members, "decision")
                      cm == Property(parsed.members, "confidence")
                      rm == Property(parsed.members, "inferred_fair_range")
                      d  == IF dm.type = "string" THEN toLowerCase(dm.str) ELSE "unknown"
                  IN  [kind          |-> "ok",
                       status        |-> Null,
                       decision      |-> IF d \in Decisions THEN d ELSE "unknown",
                       provider      |-> "text",
                       confidence    |-> IF cm.type = "number"
                                         THEN Min(100, Max(0, cm.num)) ELSE 0,
                       hasRange      |-> rm.type = "object",
                       rangeCurrency |-> IF rm.type = "object" THEN DEFAULT_CURRENCY ELSE "",
                       raw           |-> outcome.text,
                       attempts      |-> 1]

\* Number(x) * Number(y)
Times(x, y) == IF x = NaN \/ y = NaN THEN NaN ELSE x * y

\* Math.max(1, Number(it.qty || 1)); NaN stands for a non-numeric string
QtyOf(it) ==
    IF it.qty = NaN THEN NaN
    ELSE IF it.qty = Null \/ it.qty = 0 THEN 1
    ELSE Max(1, it.qty)

\* Number(it.price || it.unitPrice || 0)
UnitOf(it) ==
    IF it.price = NaN THEN NaN
    ELSE IF it.price = Null THEN 0
    ELSE it.price

\* Number.isFinite(Number(it.total)) ? Number(it.total) : qty * unit
TotalOf(it) ==
    IF it.total # Null /\ it.total # NaN THEN it.total
    ELSE Times(QtyOf(it), UnitOf(it))

(* --------------------------- state machine ---------------------------- *)
VARIABLES
    catalogLoaded,  \* ServicePriceCatalog was imported (module-level soft import)
    db,             \* the stored catalog document for EntryKey
    pc,             \* per caller: position inside upsertCatalogQuote
    snap,           \* per caller: the document findOneAndUpdate returned
    ignored,        \* the call that just returned was an upsertCatalogQuote no-op
    submitted,      \* history: prices accepted by findOneAndUpdate, in order
    rate,           \* response of the getCatalogRateForKey call that just returned
    nums,           \* argument of median / quantile
    stat,           \* results of median / quantile for nums
    genAI,          \* pricing routes: the Gemini client was created (key present)
    req,            \* the body of the compare request
    cpc,            \* position of the compare handler
    idx,            \* index of the line item the loop is at
    results,        \* rows pushed so far
    lastAssess,     \* outcome of the latest assessWithGeminiFlash call
    resp,           \* the HTTP response of compare
    rawLabel,       \* the string handed to a normalizer
    nver,           \* which normalizeServiceKey was applied to it
    nkeys,          \* its results: of rawLabel, then of the first result
    areq,           \* the body of the assess-quote request
    apc,            \* position of the assess-quote handler
    aresp,          \* the HTTP response of assess-quote
    samples,        \* ServicePriceSample documents saved
    qreq,           \* the body of the POST /quotes request
    qpc,            \* position of the POST /quotes handler
    qresp,          \* the HTTP response of POST /quotes
    inspections,    \* Inspection documents created
    GEMINI_API_KEY, \* inspections routes: the Gemini key is set (non-empty)
    vreq,           \* the body of the quote-analyze request
    vpc,            \* position of the quote-analyze handler
    vresp,          \* the HTTP response of quote-analyze
    inspected,      \* the response of the GET /prices/:key request that just returned
    messages,       \* GuidesChatMessage documents of one session, in creation order
    mpc,            \* per caller: position and countBefore of its send request
    mresp,          \* the answer of the send request that just returned
    vehicles,       \* the Vehicle documents of one user, by id
    gpc,            \* per caller: position and locals of its vehicle request
    gresp           \* the status of the vehicle request that just returned

catalogVars == <<catalogLoaded, db, pc, snap, ignored, submitted, rate>>
statVars    == <<nums, stat>>
compareVars == <<genAI, req, cpc, idx, results, lastAssess, resp>>
normVars    == <<rawLabel, nver, nkeys>>
assessVars  == <<areq, apc, aresp, samples>>
quotesVars  == <<qreq, qpc, qresp, inspections>>
analyzeVars == <<GEMINI_API_KEY, vreq, vpc, vresp>>
inspectVars == <<inspected>>
chatVars    == <<messages, mpc, mresp>>
vehicleVars == <<vehicles, gpc, gresp>>
vars == <<catalogLoaded, db, pc, snap, ignored, submitted, rate, nums, stat,
          genAI, req, cpc, idx, results, lastAssess, resp, rawLabel, nver, nkeys,
          areq, apc, aresp, samples, qreq, qpc, qresp, inspections,
          GEMINI_API_KEY, vreq, vpc, vresp, inspected, messages, mpc, mresp,
          vehicles, gpc, gresp>>

Prices == {100, 103}                     \* valid quote prices
InputPrices == Prices \cup {0, -5, NaN} \* what a caller may pass as price

SeedRanges ==
    {NoRange,
     [present |-> TRUE, min |-> 0,   max |-> 0],
     [present |-> TRUE, min |-> 100, max |-> 101]}

StatPrices == {90, 100, 110, 120, 130}

RECURSIVE SeqsUpTo(_, _)
SeqsUpTo(S, n) ==
    IF n = 0 THEN {<<>>}
    ELSE LET shorter == SeqsUpTo(S, n - 1)
         IN  shorter \cup {Append(s, x) : s \in {t \in shorter : Len(t) = n - 1}, x \in S}

NoRate == [raised |-> FALSE, key |-> "", avgPrice |-> Null, rangeMin |-> Null,
           rangeMax |-> Null, currency |-> "", source |-> "none", quotesCount |-> Null,
           reqKey |-> "", lookupFailed |-> FALSE]

NoStat == [computed |-> FALSE, median |-> Null, q |-> <<>>]

\* without the model nothing of this program has written the collection
InitCatalog ==
    /\ catalogLoaded \in BOOLEAN
    /\ db \in {NoDoc} \cup {SeededDoc(r) : r \in SeedRanges}
    /\ ~catalogLoaded => db = NoDoc
    /\ pc = [c \in Callers |-> "idle"]
    /\ snap = [c \in Callers |-> NoDoc]
    /\ ignored = FALSE
    /\ submitted = <<>>
    /\ rate = NoRate

NoRequest == [make |-> "", model |-> "", year |-> Null, items |-> <<>>]
NoResponse == [status |-> 0, rows |-> <<>>]

\* no compare request, no median / quantile call
IdleCompare ==
    /\ genAI = FALSE
    /\ req = NoRequest
    /\ cpc = "idle"
    /\ idx = 0
    /\ results = <<>>
    /\ lastAssess = NoAssess
    /\ resp = NoResponse

IdleStats ==
    /\ nums = <<>>
    /\ stat = NoStat

IdleNormalize ==
    /\ rawLabel = ""
    /\ nver = "none"
    /\ nkeys = <<>>

NoAssessRequest ==
    [make |-> "", model |-> "", year |-> Null, service |-> "", amount |-> Null,
     persist |-> FALSE]
NoAssessResponse == [status |-> 0, success |-> FALSE, decision |-> ""]

NoQuotesRequest == [vehicleId |-> FALSE, items |-> <<>>, rawText |-> FALSE]
NoQuotesResponse == [status |-> 0, saved |-> FALSE]

NoVerdict ==
    [overpriced_notes |-> <<>>, questionable_notes |-> <<>>, fair_notes |-> <<>>,
     negotiation_tips |-> 0, caught |-> FALSE]
NoAnalyzeRequest == [items |-> <<>>, marketRates |-> <<>>]
NoAnalyzeResponse == [status |-> 0, fallback |-> FALSE, via |-> "none", gemini |-> NoVerdict]

NoInspection ==
    [status |-> 0, source |-> "none", avgPrice100 |-> Null, rangeMin |-> Null,
     rangeMax |-> Null, currency |-> "", quotesCount |-> Null, reqKey |-> "",
     lookupFailed |-> FALSE, raw |-> NoDoc]

VehicleIds == {1, 2, 3}

\* no vehicle request; the user's garage is empty ("none": no document
\* has been created under the id yet, "gone": it was deleted)
NoVehicleRequest == [at |-> "idle", id |-> 0, flag |-> "absent", loaded |-> FALSE]

IdleVehicles ==
    /\ vehicles = [id \in VehicleIds |-> "none"]
    /\ gpc = [c \in Callers |-> NoVehicleRequest]
    /\ gresp = 0

\* no send-message request, no message stored
NoSend == [at |-> "idle", countBefore |-> 0]
\* index: the index of the assistant message in a 200 answer (0 otherwise)
NoSendResponse == [status |-> 0, index |-> 0]

IdleChat ==
    /\ messages = <<>>
    /\ mpc = [c \in Callers |-> NoSend]
    /\ mresp = NoSendResponse

\* no assess-quote, POST /quotes, quote-analyze, GET /prices or chat request
IdleRoutes ==
    /\ inspected = NoInspection
    /\ IdleChat
    /\ IdleVehicles
    /\ GEMINI_API_KEY = FALSE
    /\ vreq = NoAnalyzeRequest
    /\ vpc = "idle"
    /\ vresp = NoAnalyzeResponse
    /\ areq = NoAssessRequest
    /\ apc = "idle"
    /\ aresp = NoAssessResponse
    /\ samples = 0
    /\ qreq = NoQuotesRequest
    /\ qpc = "idle"
    /\ qresp = NoQuotesResponse
    /\ inspections = 0

IdleCatalog ==
    /\ catalogLoaded = TRUE
    /\ db = NoDoc
    /\ pc = [c \in Callers |-> "idle"]
    /\ snap = [c \in Callers |-> NoDoc]
    /\ ignored = FALSE
    /\ submitted = <<>>
    /\ rate = NoRate

Init ==
    /\ InitCatalog
    /\ IdleStats
    /\ IdleCompare
    /\ IdleNormalize
    /\ IdleRoutes

\* upsertCatalogQuote returns before touching storage: model not loaded,
\* empty key, or a price that is not a positive finite number.
UpsertIgnored(c, rawKey, price) ==
    /\ pc[c] = "idle"
    /\ \/ ~catalogLoaded
       \/ NormalizedKey[rawKey] = ""
       \/ ~IsPositive(price)
    /\ ignored' = TRUE
    /\ rate' = NoRate
    /\ UNCHANGED <<catalogLoaded, db, pc, snap, submitted, statVars, compareVars, normVars, assessVars, quotesVars, analyzeVars, inspectVars, chatVars, vehicleVars>>

\* the quote as $push stores it: no AI snapshot, aiDecision takes the
\* schema default
NewQuote(price) == [price |-> price, aiDecision |-> "unknown"]

\* mutant: the log is capped, $push keeps the three newest quotes
findOneAndUpdateCapped(doc, price) ==
    LET base == IF doc.exists THEN doc
                ELSE [NoDoc EXCEPT !.exists = TRUE, !.currency = "PKR"]
        all  == Append(base.userQuotes, NewQuote(price))
    IN  [base EXCEPT !.userQuotes  = IF Len(all) > 3 THEN SubSeq(all, Len(all) - 2, Len(all)) ELSE all,
                     !.quotesCount = @ + 1]

\* findOneAndUpdate({key}, {$setOnInsert, $push, $inc, $set}, {upsert, new})
findOneAndUpdate(doc, price) ==
    LET base == IF doc.exists THEN doc
                ELSE [NoDoc EXCEPT !.exists = TRUE, !.currency = "PKR"]
    IN  [base EXCEPT !.userQuotes  = Append(@, NewQuote(price)),
                     !.quotesCount = @ + 1]

UpsertFindOneAndUpdate(c, rawKey, price) ==
    /\ pc[c] = "idle"
    /\ catalogLoaded
    /\ NormalizedKey[rawKey] = EntryKey
    /\ IsPositive(price)
    /\ Len(submitted) < MaxQuotes
    /\ Len(db.userQuotes) < MaxQuotes
    /\ db' = findOneAndUpdate(db, price)
    /\ snap' = [snap EXCEPT ![c] = db']
    /\ pc' = [pc EXCEPT ![c] = "updated"]
    /\ submitted' = Append(submitted, price)
    /\ rate' = NoRate
    /\ ignored' = FALSE
    /\ UNCHANGED <<catalogLoaded, statVars, compareVars, normVars, assessVars, quotesVars, analyzeVars, inspectVars, chatVars, vehicleVars>>

\* Math.round(avg) of the route, in hundredths
RoundedAvg100(prices) == 100 * ((2 * SumSeq(prices) + Len(prices)) \div (2 * Len(prices)))

\* mutant: save writes the whole in-memory document back, userQuotes included
saveWholeDocument(stored, loaded, sticky) == recomputeRollups(loaded)

\* mutant: the pre-save hook does not run, the whole-number average the
\* route assigned is what gets stored
saveWithoutHook(stored, loaded, sticky) ==
    LET prices == SelectSeq(PricesOf(loaded), IsPositive)
    IN  [stored EXCEPT !.avgUserPrice = RoundedAvg100(prices)]

\* doc.save(): the pre-save hook recomputes the rollups of the in-memory
\* snapshot, then only the paths whose value was changed are $set on the
\* stored document; userQuotes was not touched and is not written.
\* sticky: a path set to a new value and then back to its loaded value is
\* still written (it depends on the mongoose version).
save(stored, loaded, sticky) ==
    LET prices == SelectSeq(PricesOf(loaded), IsPositive)
        local  == recomputeRollups([loaded EXCEPT !.avgUserPrice = RoundedAvg100(prices)])
        avgDirty == \/ local.avgUserPrice # loaded.avgUserPrice
                    \/ sticky /\ RoundedAvg100(prices) # loaded.avgUserPrice
    IN  [stored EXCEPT
           !.quotesCount     = IF local.quotesCount # loaded.quotesCount
                               THEN local.quotesCount ELSE @,
           !.avgUserPrice    = IF avgDirty THEN local.avgUserPrice ELSE @,
           !.fairCount       = IF local.fairCount # loaded.fairCount
                               THEN local.fairCount ELSE @,
           !.overpricedCount = IF local.overpricedCount # loaded.overpricedCount
                               THEN local.overpricedCount ELSE @,
           !.unknownCount    = IF local.unknownCount # loaded.unknownCount
                               THEN local.unknownCount ELSE @]

UpsertSave(c) ==
    /\ pc[c] = "updated"
    /\ \E sticky \in BOOLEAN : db' = save(db, snap[c], sticky)
    /\ pc' = [pc EXCEPT ![c] = "idle"]
    /\ snap' = [snap EXCEPT ![c] = NoDoc]
    /\ ignored' = FALSE
    /\ rate' = NoRate
    /\ UNCHANGED <<catalogLoaded, submitted, statVars, compareVars, normVars, assessVars, quotesVars, analyzeVars, inspectVars, chatVars, vehicleVars>>

\* one getCatalogRateForKey call: normalize, findOne, choose the tier
Resolve(rawKey, fails) ==
    LET k   == NormalizedKey[rawKey]
        doc == IF k = EntryKey THEN db ELSE NoDoc
        r   == getCatalogRateForKey(rawKey, catalogLoaded, doc, fails)
    IN  /\ rate' = [raised |-> r.raised, key |-> r.key, avgPrice |-> r.avgPrice,
                    rangeMin |-> r.rangeMin, rangeMax |-> r.rangeMax,
                    currency |-> r.currency, source |-> r.source,
                    quotesCount |-> r.quotesCount,
                    reqKey |-> rawKey, lookupFailed |-> fails]
        /\ ignored' = FALSE
        /\ UNCHANGED <<catalogLoaded, db, pc, snap, submitted, statVars, compareVars, normVars, assessVars, quotesVars, analyzeVars, inspectVars, chatVars, vehicleVars>>

\* the calls upsertCatalogQuote may ignore, one for each reason: an empty
\* key, a price that is zero, negative or not a number, and a valid call
\* (ignored when the model is not loaded).  An ignored call leaves the same
\* state whatever its arguments are.
IgnoredCalls ==
    {<<"", 100>>, <<"Oil Change", 0>>, <<"Oil Change", -5>>, <<"Oil Change", NaN>>,
     <<"Oil Change", 100>>}

\* concurrent upsertCatalogQuote calls (the learning step of POST /quotes
\* runs them under Promise.all, and requests overlap)
Next ==
    \/ \E c \in Callers, call \in IgnoredCalls : UpsertIgnored(c, call[1], call[2])
    \/ \E c \in Callers, k \in WriterKeys, p \in InputPrices : UpsertFindOneAndUpdate(c, k, p)
    \/ \E c \in Callers : UpsertSave(c)

Spec == Init /\ [][Next]_vars

\* the resolver reading between the storage steps of one caller's
\* upsertCatalogQuote calls (it reads userQuotes, baseRange and currency only)
NextResolve ==
    \/ \E k \in WriterKeys, p \in InputPrices : UpsertIgnored(1, k, p)
    \/ \E k \in WriterKeys, p \in InputPrices : UpsertFindOneAndUpdate(1, k, p)
    \/ UpsertSave(1)
    \/ \E k \in ResolveKeys, f \in BOOLEAN : Resolve(k, f)

SpecResolve == Init /\ [][NextResolve]_vars

\* one GET /prices/:key request
GetPrices(rawKey, fails) ==
    LET k   == NormalizedKey[rawKey]
        doc == IF k = EntryKey THEN db ELSE NoDoc
        r   == getPricesKey(rawKey, catalogLoaded, doc, fails)
    IN  /\ inspected' = [status |-> r.status, source |-> r.source,
                         avgPrice100 |-> r.avgPrice100, rangeMin |-> r.rangeMin,
                         rangeMax |-> r.rangeMax, currency |-> r.currency,
                         quotesCount |-> r.quotesCount, reqKey |-> rawKey,
                         lookupFailed |-> fails, raw |-> r.raw]
        /\ UNCHANGED <<catalogVars, statVars, compareVars, normVars, assessVars, quotesVars, analyzeVars, chatVars, vehicleVars>>

\* the inspection endpoint reading between the storage steps of one
\* caller's upsertCatalogQuote calls
NextInspect ==
    \/ \E k \in WriterKeys, p \in InputPrices : UpsertIgnored(1, k, p)
    \/ \E k \in WriterKeys, p \in InputPrices : UpsertFindOneAndUpdate(1, k, p)
    \/ UpsertSave(1)
    \/ \E k \in ResolveKeys, f \in BOOLEAN : GetPrices(k, f)

SpecInspect == Init /\ [][NextInspect]_vars

(* ------------------- median / quantile on their own ------------------- *)
InitStats ==
    /\ IdleCatalog
    /\ IdleCompare
    /\ IdleNormalize
    /\ IdleRoutes
    /\ nums \in SeqsUpTo(StatPrices, MaxLen)
    /\ stat = NoStat

\* median(nums) and quantile(nums, q) for q = 0, 1/4, 1/2, 3/4, 1
ComputeStats ==
    /\ ~stat.computed
    /\ stat' = [computed |-> TRUE,
                median   |-> median(nums),
                q        |-> [qn \in 0..4 |-> quantile(nums, qn)]]
    /\ UNCHANGED <<catalogVars, nums, compareVars, normVars, assessVars, quotesVars, analyzeVars, inspectVars, chatVars, vehicleVars>>

NextStats == ComputeStats

SpecStats == InitStats /\ [][NextStats]_vars

(* ------------------------- POST /pricing/compare ---------------------- *)
Item(label, qty, price, total) == [label |-> label, qty |-> qty, price |-> price, total |-> total]

\* line items a request may carry (Null: field absent, NaN: a value that
\* Number() does not read as a number)
ItemChoices ==
    {Item("Oil change", Null, 45, Null),
     Item("Brake Rotor", 2, 45, Null),
     Item("", Null, 45, Null),
     Item("Oil change", NaN, 45, Null),
     Item("Tires", 1, 0, Null),
     Item("Tires", 1, -5, Null),
     Item("Oil change", 1, 45, 500)}

VehicleChoices ==
    {[make |-> "Toyota", model |-> "Corolla", year |-> 2015],
     [make |-> "",       model |-> "Corolla", year |-> 2015],
     [make |-> "Toyota", model |-> "Corolla", year |-> Null]}

RawTexts ==
    {<<>>,
     <<"txt">>,
     <<"{", "d:fair", "}">>,
     <<"{", "d:FAIR", "}">>,
     <<"{", "d:cheap", "}">>,
     <<"{", "}">>,
     <<"txt", "{", "d:overpriced", "}", "txt">>,
     <<"null">>,
     <<"7">>,
     <<"[", "]">>,
     <<"[", "{", "d:fair", "}", "]">>,
     <<"{", "d:fair">>,
     <<"{", "d:fair", "}", "txt", "{", "d:fair", "}">>,
     <<"{", "d:FAIR", "c:1.4", "}">>,
     <<"{", "d:overpriced", "c:0.5", "r:EUR", "}">>,
     <<"{", "d:7", "c:high", "r:text", "}">>,
     <<"txt", "{", "c:-0.3", "d:Unknown", "r:{}", "}">>,
     <<"{", "d:fair", "d:cheap", "}">>}

ProviderOutcomes ==
    {[kind |-> "throw", status |-> st, text |-> <<>>] : st \in {Null, 429}}
    \cup {[kind |-> "text", status |-> Null, text |-> t] : t \in RawTexts}

InitCompare ==
    /\ IdleCatalog
    /\ IdleStats
    /\ IdleNormalize
    /\ IdleRoutes
    /\ genAI \in BOOLEAN
    /\ \E v \in VehicleChoices, its \in SeqsUpTo(ItemChoices, MaxItems) :
           req = [make |-> v.make, model |-> v.model, year |-> v.year, items |-> its]
    /\ cpc = "idle"
    /\ idx = 0
    /\ results = <<>>
    /\ lastAssess = NoAssess
    /\ resp = NoResponse

\* the field checks at the top of the handler
CompareValidate ==
    /\ cpc = "idle"
    /\ IF req.make = "" \/ req.model = "" \/ req.year = Null \/ Len(req.items) = 0
       THEN /\ resp' = [status |-> 400, rows |-> <<>>]
            /\ cpc' = "done"
            /\ idx' = idx
       ELSE /\ resp' = resp
            /\ cpc' = "loop"
            /\ idx' = 1
    /\ UNCHANGED <<catalogVars, statVars, genAI, req, results, lastAssess, normVars, assessVars, quotesVars, analyzeVars, inspectVars, chatVars, vehicleVars>>

RowOf(it, verdict, note, hasAi) ==
    [key       |-> PricingKey[it.label],
     label     |-> it.label,
     qty       |-> QtyOf(it),
     unitPrice |-> UnitOf(it),
     total     |-> TotalOf(it),
     verdict   |-> verdict,
     note      |-> note,
     hasAi     |-> hasAi]

\* one pass of the for loop; an error thrown by assessWithGeminiFlash
\* leaves the loop for the catch block, which answers err.status || 500
CompareItem(outcome) ==
    /\ cpc = "loop"
    /\ idx <= Len(req.items)
    /\ LET it == req.items[idx]
           a  == assessWithGeminiFlash(genAI, outcome)
       IN  IF PricingKey[it.label] = ""
           THEN /\ idx' = idx + 1
                /\ UNCHANGED <<results, lastAssess, resp, cpc>>
           ELSE IF it.label = "" \/ TotalOf(it) = NaN
           THEN /\ results' = Append(results, RowOf(it, "unknown", TRUE, FALSE))
                /\ idx' = idx + 1
                /\ UNCHANGED <<lastAssess, resp, cpc>>
           ELSE /\ lastAssess' = a
                /\ IF a.kind = "error"
                   THEN /\ resp' = [status |-> IF a.status = Null THEN 500 ELSE a.status,
                                    rows   |-> <<>>]
                        /\ cpc' = "done"
                        /\ UNCHANGED <<results, idx>>
                   ELSE /\ results' = Append(results, RowOf(it, a.decision, FALSE, TRUE))
                        /\ idx' = idx + 1
                        /\ UNCHANGED <<resp, cpc>>
    /\ UNCHANGED <<catalogVars, statVars, genAI, req, normVars, assessVars, quotesVars, analyzeVars, inspectVars, chatVars, vehicleVars>>

\* res.json({ success: true, results, table })
CompareRespond ==
    /\ cpc = "loop"
    /\ idx > Len(req.items)
    /\ resp' = [status |-> 200, rows |-> results]
    /\ cpc' = "done"
    /\ UNCHANGED <<catalogVars, statVars, genAI, req, idx, results, lastAssess, normVars, assessVars, quotesVars, analyzeVars, inspectVars, chatVars, vehicleVars>>

NextCompare ==
    \/ CompareValidate
    \/ \E o \in ProviderOutcomes : CompareItem(o)
    \/ CompareRespond

SpecCompare == InitCompare /\ [][NextCompare]_vars

(* ----------------------- POST /pricing/assess-quote -------------------- *)
\* bodies a client may send (Null: the field is absent or not a number)
AssessRequests ==
    [make : {"Toyota", ""}, model : {"Corolla", ""}, year : {2015, Null},
     service : {"Oil change", ""}, amount : {45, 0, Null}, persist : BOOLEAN]

\* the field checks at the top of the handler
AssessValidate ==
    /\ apc = "received"
    /\ IF \/ areq.make = "" \/ areq.model = "" \/ areq.year = Null
          \/ areq.service = "" \/ areq.amount = Null
       THEN /\ aresp' = [status |-> 400, success |-> FALSE, decision |-> ""]
            /\ apc' = "done"
       ELSE /\ aresp' = aresp
            /\ apc' = "assess"
    /\ UNCHANGED <<catalogVars, statVars, compareVars, normVars, areq, samples, quotesVars, analyzeVars, inspectVars, chatVars, vehicleVars>>

\* await assessWithGeminiFlash(...); without persist_assessment the handler
\* answers at once; an error goes to the catch block (err.status || 500)
AssessCall(outcome) ==
    /\ apc = "assess"
    /\ LET a == assessWithGeminiFlash(genAI, outcome)
       IN  /\ lastAssess' = a
           /\ IF a.kind = "error"
              THEN /\ aresp' = [status   |-> IF a.status = Null THEN 500 ELSE a.status,
                                success  |-> FALSE,
                                decision |-> ""]
                   /\ apc' = "done"
              ELSE IF areq.persist
              THEN /\ aresp' = aresp
                   /\ apc' = "persist"
              ELSE /\ aresp' = [status |-> 200, success |-> TRUE, decision |-> a.decision]
                   /\ apc' = "done"
    /\ UNCHANGED <<catalogVars, statVars, genAI, req, cpc, idx, results, resp,
                   normVars, areq, samples, quotesVars, analyzeVars, inspectVars, chatVars, vehicleVars>>

\* await doc.save() of the ServicePriceSample, inside the handler's try:
\* a rejection (fails) goes to the same catch block and carries no status
AssessPersist(fails) ==
    /\ apc = "persist"
    /\ IF fails
       THEN /\ aresp' = [status |-> 500, success |-> FALSE, decision |-> ""]
            /\ samples' = samples
       ELSE /\ aresp' = [status |-> 200, success |-> TRUE, decision |-> lastAssess.decision]
            /\ samples' = samples + 1
    /\ apc' = "done"
    /\ UNCHANGED <<catalogVars, statVars, compareVars, normVars, areq, quotesVars, analyzeVars, inspectVars, chatVars, vehicleVars>>

(* ------------------------ POST /inspections/quotes -------------------- *)
QuoteLabels == {"Oil Change", ""}

\* upsertCatalogQuote normalizes the key its caller normalized already
NormalizedTwice ==
    [raw \in QuoteLabels |-> normalizeServiceKey(normalizeServiceKey(raw))]

\* bodies with no line item or one (vehicleId, rawText: the field is there)
QuotesRequests ==
    [vehicleId : BOOLEAN,
     items     : {<<>>} \cup {<<[label |-> l, price |-> p]>> : l \in QuoteLabels, p \in {100, 0}},
     rawText   : BOOLEAN]

QuotesValidate ==
    /\ qpc = "received"
    /\ IF ~qreq.vehicleId \/ (Len(qreq.items) = 0 /\ ~qreq.rawText)
       THEN /\ qresp' = [status |-> 400, saved |-> FALSE]
            /\ qpc' = "done"
       ELSE /\ qresp' = qresp
            /\ qpc' = "create"
    /\ UNCHANGED <<catalogVars, statVars, compareVars, normVars, assessVars, qreq, inspections, analyzeVars, inspectVars, chatVars, vehicleVars>>

\* await Inspection.create(...); a rejection is answered 500 by the outer catch
QuotesCreate(fails) ==
    /\ qpc = "create"
    /\ IF fails
       THEN /\ qresp' = [status |-> 500, saved |-> FALSE]
            /\ qpc' = "done"
            /\ inspections' = inspections
       ELSE /\ qresp' = qresp
            /\ qpc' = "learn"
            /\ inspections' = inspections + 1
    /\ UNCHANGED <<catalogVars, statVars, compareVars, normVars, assessVars, qreq, analyzeVars, inspectVars, chatVars, vehicleVars>>

LearnOutcomes == {"ok", "updateRejects", "saveRejects"}

\* the learning step and the answer: upsertCatalogQuote for the line item
\* inside try / catch, then res.json(doc).  storage: what the storage calls
\* of upsertCatalogQuote do.
QuotesLearn(storage, sticky) ==
    /\ qpc = "learn"
    /\ LET it      == IF Len(qreq.items) > 0 THEN qreq.items[1]
                      ELSE [label |-> "", price |-> 0]
           k       == NormalizedKey[it.label]
           learns  == /\ Len(qreq.items) > 0
                      /\ k # "" /\ IsPositive(it.price)
                      /\ catalogLoaded
                      /\ NormalizedTwice[it.label] = EntryKey
           pushed  == findOneAndUpdate(db, it.price)
       IN  IF learns /\ storage # "updateRejects"
           THEN /\ db' = IF storage = "ok" THEN save(pushed, pushed, sticky) ELSE pushed
                /\ submitted' = Append(submitted, it.price)
           ELSE UNCHANGED <<db, submitted>>
    /\ qresp' = [status |-> 200, saved |-> TRUE]
    /\ qpc' = "done"
    /\ ignored' = FALSE
    /\ rate' = NoRate
    /\ UNCHANGED <<catalogLoaded, pc, snap, statVars, compareVars, normVars, assessVars,
                   qreq, inspections, analyzeVars, inspectVars, chatVars, vehicleVars>>

\* one request of either route
InitPersist ==
    /\ catalogLoaded \in BOOLEAN
    /\ db = NoDoc
    /\ pc = [c \in Callers |-> "idle"]
    /\ snap = [c \in Callers |-> NoDoc]
    /\ ignored = FALSE
    /\ submitted = <<>>
    /\ rate = NoRate
    /\ IdleStats
    /\ IdleNormalize
    /\ genAI \in BOOLEAN
    /\ req = NoRequest /\ cpc = "idle" /\ idx = 0 /\ results = <<>>
    /\ lastAssess = NoAssess /\ resp = NoResponse
    /\ aresp = NoAssessResponse /\ samples = 0
    /\ qresp = NoQuotesResponse /\ inspections = 0
    /\ GEMINI_API_KEY = FALSE /\ vreq = NoAnalyzeRequest
    /\ vpc = "idle" /\ vresp = NoAnalyzeResponse
    /\ inspected = NoInspection
    /\ IdleChat
    /\ IdleVehicles
    /\ \/ /\ areq \in AssessRequests /\ apc = "received"
          /\ qreq = NoQuotesRequest /\ qpc = "idle"
       \/ /\ qreq \in QuotesRequests /\ qpc = "received"
          /\ areq = NoAssessRequest /\ apc = "idle"

NextPersist ==
    \/ AssessValidate
    \/ \E o \in ProviderOutcomes : AssessCall(o)
    \/ \E f \in BOOLEAN : AssessPersist(f)
    \/ QuotesValidate
    \/ \E f \in BOOLEAN : QuotesCreate(f)
    \/ \E st \in LearnOutcomes, sticky \in BOOLEAN : QuotesLearn(st, sticky)

SpecPersist == InitPersist /\ [][NextPersist]_vars

(* -------------------- POST /inspections/ai/quote-analyze -------------- *)
VerdictLabels == {"Oil change", "oil_change", "detailing", ""}

VerdictKey == [raw \in VerdictLabels |-> normalizeServiceKey(raw)]

\* a line item of the body.  kind "null": the array holds null at this
\* place; kind "numberLabel": the label is a number, not a string.
AnalyzeItem(kind, lbl, qty, price) ==
    [kind |-> kind, label |-> lbl, qty |-> qty, price |-> price]

AnalyzeItems ==
    {AnalyzeItem("object", "Oil change", Null, 500),
     AnalyzeItem("object", "Oil change", 2, 20),
     AnalyzeItem("object", "Oil change", Null, 55),
     AnalyzeItem("object", "Oil change", Null, 66),
     AnalyzeItem("object", "Oil change", Null, 67),
     AnalyzeItem("object", "Oil change", NaN, 55),
     AnalyzeItem("object", "detailing", Null, 80),
     AnalyzeItem("null", "", Null, Null),
     AnalyzeItem("numberLabel", "", Null, 80)}

\* a row of marketRates (avgPrice Null: not a number)
RateRows ==
    {<<>>,
     <<[kind |-> "object", key |-> "oil_change", avgPrice |-> 55]>>,
     <<[kind |-> "object", key |-> "oil_change", avgPrice |-> Null]>>,
     <<[kind |-> "null", key |-> "", avgPrice |-> Null]>>}

Note(bucket, lbl) == [bucket |-> bucket, label |-> lbl]
ErrorNote == Note("error", "")      \* "Heuristic fallback ran into an error."

\* idx[k]: the row written last under the key, kind "none" when there is none
RateFor(marketRates, k) ==
    LET at == {i \in 1..Len(marketRates) : VerdictKey[marketRates[i].key] = k}
    IN  IF at = {} THEN [kind |-> "none", key |-> k, avgPrice |-> Null]
        ELSE marketRates[CHOOSE i \in at : \A j \in at : j <= i]

\* Number(it.qty || 1) * Number(it.price || 0)
AnalyzeTotal(it) ==
    Times(IF it.qty = Null \/ it.qty = 0 THEN 1 ELSE it.qty,
          IF it.price = Null THEN 0 ELSE it.price)

\* mutant: a total of exactly 120% counts as overpriced
AtLeastHigh(total, avgPrice) == total # NaN /\ 10 * total >= 12 * avgPrice

\* total > high, with high = r.avgPrice * 1.2
AboveHigh(total, avgPrice) == total # NaN /\ 10 * total > 12 * avgPrice

\* total < low, with low = r.avgPrice * 0.8
BelowLow(total, avgPrice) == total # NaN /\ 10 * total < 8 * avgPrice

\* the loop over items of fallbackVerdict from item i on; acc holds the
\* three note lists; raised: reading a field of the item threw
RECURSIVE ClassifyFrom(_, _, _, _)
ClassifyFrom(items, marketRates, i, acc) ==
    IF i > Len(items) THEN acc
    ELSE LET it == items[i] IN
         IF it.kind # "object" THEN [acc EXCEPT !.raised = TRUE]
         ELSE LET k     == VerdictKey[it.label]
                  total == AnalyzeTotal(it)
                  r     == RateFor(marketRates, k)
                  next  ==
                    IF r.kind = "object" /\ r.avgPrice # Null
                    THEN IF AboveHigh(total, r.avgPrice)
                         THEN [acc EXCEPT !.overpriced_notes =
                                              Append(@, Note("overpriced", it.label))]
                         ELSE IF BelowLow(total, r.avgPrice)
                         THEN [acc EXCEPT !.fair_notes = Append(@, Note("below", it.label))]
                         ELSE [acc EXCEPT !.fair_notes = Append(@, Note("within", it.label))]
                    ELSE [acc EXCEPT !.questionable_notes =
                                         Append(@, Note("unknown", it.label))]
              IN  ClassifyFrom(items, marketRates, i + 1, next)

\* fallbackVerdict() for the items and marketRates of the body.  The note
\* lists are created before the try; the catch block returns them as they
\* are, with questionable_notes replaced.  caught: the catch block ran.
fallbackVerdict(items, marketRates) ==
    LET empty == [overpriced_notes |-> <<>>, questionable_notes |-> <<>>,
                  fair_notes |-> <<>>, raised |-> FALSE]
        tried == IF \E i \in 1..Len(marketRates) : marketRates[i].kind # "object"
                 THEN [empty EXCEPT !.raised = TRUE]
                 ELSE ClassifyFrom(items, marketRates, 1, empty)
    IN  IF tried.raised
        THEN [overpriced_notes   |-> tried.overpriced_notes,
              questionable_notes |-> <<ErrorNote>>,
              fair_notes         |-> tried.fair_notes,
              negotiation_tips   |-> 0,
              caught             |-> TRUE]
        ELSE [overpriced_notes   |-> tried.overpriced_notes,
              questionable_notes |-> tried.questionable_notes,
              fair_notes         |-> tried.fair_notes,
              negotiation_tips   |-> 2,
              caught             |-> FALSE]

\* parseJsonFromModel(text): a leading and a trailing code fence (token
\* "fence") are removed, then JSON.parse; null when that throws
parseJsonFromModel(text) ==
    LET opened   == Len(text) > 0 /\ text[1] = "fence"
        body     == IF opened THEN Tail(text) ELSE text
        unfenced == IF opened /\ Len(body) > 0 /\ body[Len(body)] = "fence"
                    THEN SubSeq(body, 1, Len(body) - 1) ELSE body
        v        == JSONParse(unfenced)
    IN  IF v.ok THEN v ELSE Value("null", <<>>)

AnalyzeTexts ==
    {<<"{", "d:fair", "}">>,
     <<"fence", "{", "d:fair", "}", "fence">>,
     <<"txt">>,
     <<"null">>,
     <<>>}

AnalyzeOutcomes ==
    {[kind |-> "throw", status |-> Null, text |-> <<>>]}
    \cup {[kind |-> "text", status |-> Null, text |-> t] : t \in AnalyzeTexts}

InitAnalyze ==
    /\ IdleCatalog
    /\ IdleStats
    /\ IdleCompare
    /\ IdleNormalize
    /\ areq = NoAssessRequest /\ apc = "idle" /\ aresp = NoAssessResponse /\ samples = 0
    /\ qreq = NoQuotesRequest /\ qpc = "idle" /\ qresp = NoQuotesResponse
    /\ inspections = 0
    /\ inspected = NoInspection
    /\ IdleChat
    /\ IdleVehicles
    /\ GEMINI_API_KEY \in BOOLEAN
    /\ \E its \in SeqsUpTo(AnalyzeItems, MaxItems), rates \in RateRows :
           vreq = [items |-> its, marketRates |-> rates]
    /\ vpc = "received"
    /\ vresp = NoAnalyzeResponse

Answer(status, fallback, via, gemini) ==
    [status |-> status, fallback |-> fallback, via |-> via, gemini |-> gemini]

\* the handler up to its first await: the key check, then hoursIndex,
\* unknownItems and the prompt inside the outer try.  r.key of a null row
\* and normalizeServiceKey of a number throw into the outer catch.
AnalyzeBuild ==
    /\ vpc = "received"
    /\ IF ~GEMINI_API_KEY
       THEN /\ vresp' = Answer(500, FALSE, "key check", NoVerdict)
            /\ vpc' = "done"
       ELSE IF \/ \E i \in 1..Len(vreq.marketRates) : vreq.marketRates[i].kind # "object"
               \/ \E i \in 1..Len(vreq.items) : vreq.items[i].kind = "numberLabel"
       THEN /\ vresp' = Answer(200, TRUE, "outer catch",
                               fallbackVerdict(vreq.items, vreq.marketRates))
            /\ vpc' = "done"
       ELSE /\ vresp' = vresp
            /\ vpc' = "generate"
    /\ UNCHANGED <<catalogVars, statVars, compareVars, normVars, assessVars, quotesVars,
                   GEMINI_API_KEY, vreq, inspectVars, chatVars, vehicleVars>>

\* await model.generateContent(...) in its own try, then the answer
AnalyzeGenerate(outcome) ==
    /\ vpc = "generate"
    /\ vresp' =
          IF outcome.kind = "throw"
          THEN Answer(200, TRUE, "generateContent catch",
                      fallbackVerdict(vreq.items, vreq.marketRates))
          ELSE IF parseJsonFromModel(outcome.text).kind \in {"object", "array", "number"}
          THEN Answer(200, FALSE, "parsed", NoVerdict)
          ELSE Answer(200, FALSE, "default container", NoVerdict)
    /\ vpc' = "done"
    /\ UNCHANGED <<catalogVars, statVars, compareVars, normVars, assessVars, quotesVars,
                   GEMINI_API_KEY, vreq, inspectVars, chatVars, vehicleVars>>

NextAnalyze ==
    \/ AnalyzeBuild
    \/ \E o \in AnalyzeOutcomes : AnalyzeGenerate(o)

SpecAnalyze == InitAnalyze /\ [][NextAnalyze]_vars

(* ------------------ POST /sessions/:sessionId/messages ---------------- *)
Message(role, index, by) == [role |-> role, index |-> index, by |-> by]

\* send requests that passed validation and have not lost their user message
SendsStarted ==
    Cardinality({k \in 1..Len(messages) : messages[k].role = "user"})
        + Cardinality({c \in Callers : mpc[c].at = "counted"})

\* the request is answered before anything is stored: empty content (400)
\* or no session of this user under the id (404)
SendRejected(c, status) ==
    /\ mpc[c].at = "idle"
    /\ mresp' = [status |-> status, index |-> 0]
    /\ UNCHANGED <<messages, mpc, catalogVars, statVars, compareVars, normVars, assessVars, quotesVars, analyzeVars, inspectVars, vehicleVars>>

\* countBefore = await GuidesChatMessage.countDocuments({sessionId, userId})
SendCount(c) ==
    /\ mpc[c].at = "idle"
    /\ SendsStarted < MaxSends
    /\ mpc' = [mpc EXCEPT ![c] = [at |-> "counted", countBefore |-> Len(messages)]]
    /\ mresp' = NoSendResponse
    /\ UNCHANGED <<messages, catalogVars, statVars, compareVars, normVars, assessVars, quotesVars, analyzeVars, inspectVars, vehicleVars>>

\* the final fallback of the outer catch: success with user: null and an
\* assistant message of index -1 that is not stored
SendFallback == [status |-> 200, index |-> -1]

\* 1) GuidesChatMessage.create of the user message at index countBefore;
\* rejects: the create rejects and the outer catch answers
SendUserMessage(c, rejects) ==
    /\ mpc[c].at = "counted"
    /\ IF rejects
       THEN /\ messages' = messages
            /\ mpc' = [mpc EXCEPT ![c] = NoSend]
            /\ mresp' = SendFallback
       ELSE /\ messages' = Append(messages, Message("user", mpc[c].countBefore, c))
            /\ mpc' = [mpc EXCEPT ![c].at = "userSaved"]
            /\ mresp' = NoSendResponse
    /\ UNCHANGED <<catalogVars, statVars, compareVars, normVars, assessVars, quotesVars, analyzeVars, inspectVars, vehicleVars>>

\* 2) - 6) the history read and the Gemini call (two attempts, then the
\* canned reply: replyText is never empty), GuidesChatMessage.create of the
\* assistant message at index countBefore + 1, preview, title, answer
SendAssistantMessage(c, rejects) ==
    /\ mpc[c].at = "userSaved"
    /\ IF rejects
       THEN /\ messages' = messages
            /\ mresp' = SendFallback
       ELSE /\ messages' = Append(messages, Message("assistant", mpc[c].countBefore + 1, c))
            /\ mresp' = [status |-> 200, index |-> mpc[c].countBefore + 1]
    /\ mpc' = [mpc EXCEPT ![c] = NoSend]
    /\ UNCHANGED <<catalogVars, statVars, compareVars, normVars, assessVars, quotesVars, analyzeVars, inspectVars, vehicleVars>>

InitChat ==
    /\ IdleCatalog
    /\ IdleStats
    /\ IdleCompare
    /\ IdleNormalize
    /\ IdleRoutes

\* send requests of the callers for one session; their awaits interleave
NextChat ==
    \/ \E c \in Callers, st \in {400, 404} : SendRejected(c, st)
    \/ \E c \in Callers : SendCount(c)
    \/ \E c \in Callers, r \in BOOLEAN : SendUserMessage(c, r)
    \/ \E c \in Callers, r \in BOOLEAN : SendAssistantMessage(c, r)

SpecChat == InitChat /\ [][NextChat]_vars

(* ---------------------------- vehicle routes -------------------------- *)
Exists(id) == vehicles[id] \in {"plain", "primary"}

\* Vehicle.updateMany(filter, {$set: {isPrimary: false}}) over the ids
Demote(ids) == [id \in VehicleIds |-> IF id \in ids /\ vehicles[id] = "primary"
                                       THEN "plain" ELSE vehicles[id]]

\* v.save() of a loaded document whose isPrimary was assigned: the path is
\* written when the assigned value differs from the loaded one; a document
\* deleted in between makes save reject
Saved(id, wasPrimary, isPrimary) ==
    IF Exists(id) /\ wasPrimary # isPrimary
    THEN [vehicles EXCEPT ![id] = IF isPrimary THEN "primary" ELSE "plain"]
    ELSE vehicles

At(c, at) == [gpc EXCEPT ![c].at = at]

\* POST /: existingCount = await Vehicle.countDocuments({userId})
CreateCount(c, isPrimary) ==
    /\ gpc[c].at = "idle"
    /\ \E id \in VehicleIds : vehicles[id] = "none"
    /\ gpc' = [gpc EXCEPT ![c] = [at |-> "counted", id |-> 0,
                                  flag |-> IF isPrimary THEN "true" ELSE "false",
                                  loaded |-> \A id \in VehicleIds : ~Exists(id)]]
    /\ gresp' = 0
    /\ UNCHANGED vehicles
    /\ UNCHANGED <<catalogVars, statVars, compareVars, normVars, assessVars, quotesVars, analyzeVars, inspectVars, chatVars>>

\* POST /: if (isPrimary) await Vehicle.updateMany({userId, isPrimary: true}, ...)
CreateDemote(c) ==
    /\ gpc[c].at = "counted"
    /\ gpc[c].flag = "true"
    /\ vehicles' = Demote(VehicleIds)
    /\ gpc' = At(c, "demoted")
    /\ gresp' = 0
    /\ UNCHANGED <<catalogVars, statVars, compareVars, normVars, assessVars, quotesVars, analyzeVars, inspectVars, chatVars>>

\* POST /: Vehicle.create({..., isPrimary: !!isPrimary || existingCount === 0}),
\* then the save of the service hint (isPrimary is not written again)
CreateInsert(c) ==
    /\ \/ gpc[c].at = "counted" /\ gpc[c].flag = "false"
       \/ gpc[c].at = "demoted"
    /\ \E id \in VehicleIds :
          /\ vehicles[id] = "none"
          /\ \A other \in VehicleIds : vehicles[other] = "none" => id <= other
          /\ vehicles' = [vehicles EXCEPT ![id] =
                              IF gpc[c].flag = "true" \/ gpc[c].loaded
                              THEN "primary" ELSE "plain"]
    /\ gpc' = [gpc EXCEPT ![c] = NoVehicleRequest]
    /\ gresp' = 201
    /\ UNCHANGED <<catalogVars, statVars, compareVars, normVars, assessVars, quotesVars, analyzeVars, inspectVars, chatVars>>

\* PATCH /:id and POST /:id/set-primary: v = await Vehicle.findOne({_id, userId});
\* 404 when there is none.  op "patch" carries body.isPrimary (true, false
\* or absent), op "set-primary" always assigns true.
FindVehicle(c, op, id, flag) ==
    /\ gpc[c].at = "idle"
    /\ op = "set-primary" => flag = "true"
    /\ IF Exists(id)
       THEN /\ gpc' = [gpc EXCEPT ![c] = [at |-> "found", id |-> id, flag |-> flag,
                                           loaded |-> vehicles[id] = "primary"]]
            /\ gresp' = 0
       ELSE /\ gpc' = gpc
            /\ gresp' = 404
    /\ UNCHANGED vehicles
    /\ UNCHANGED <<catalogVars, statVars, compareVars, normVars, assessVars, quotesVars, analyzeVars, inspectVars, chatVars>>

\* await Vehicle.updateMany({userId, _id: {$ne: id}}, {$set: {isPrimary: false}})
DemoteOthers(c) ==
    /\ gpc[c].at = "found"
    /\ gpc[c].flag = "true"
    /\ vehicles' = Demote(VehicleIds \ {gpc[c].id})
    /\ gpc' = At(c, "othersDemoted")
    /\ gresp' = 0
    /\ UNCHANGED <<catalogVars, statVars, compareVars, normVars, assessVars, quotesVars, analyzeVars, inspectVars, chatVars>>

\* v.isPrimary = true / false (patch: unless absent); await v.save()
SaveVehicle(c) ==
    /\ \/ gpc[c].at = "found" /\ gpc[c].flag # "true"
       \/ gpc[c].at = "othersDemoted"
    /\ vehicles' = IF gpc[c].flag = "absent" THEN vehicles
                   ELSE Saved(gpc[c].id, gpc[c].loaded, gpc[c].flag = "true")
    /\ gresp' = IF Exists(gpc[c].id) THEN 200 ELSE 500
    /\ gpc' = [gpc EXCEPT ![c] = NoVehicleRequest]
    /\ UNCHANGED <<catalogVars, statVars, compareVars, normVars, assessVars, quotesVars, analyzeVars, inspectVars, chatVars>>

\* DELETE /:id: findOne (404 when there is none), the photo cleanup, then
\* await Vehicle.deleteOne({_id, userId})
DeleteOne(c, id) ==
    /\ gpc[c].at = "idle"
    /\ IF Exists(id)
       THEN /\ vehicles' = [vehicles EXCEPT ![id] = "gone"]
            /\ gpc' = [gpc EXCEPT ![c] = [at |-> "deleted", id |-> id, flag |-> "absent",
                                           loaded |-> FALSE]]
            /\ gresp' = 0
       ELSE /\ UNCHANGED <<vehicles, gpc>>
            /\ gresp' = 404
    /\ UNCHANGED <<catalogVars, statVars, compareVars, normVars, assessVars, quotesVars, analyzeVars, inspectVars, chatVars>>

\* DELETE /:id: anyPrimary = await Vehicle.exists({userId, isPrimary: true})
DeleteAnyPrimary(c) ==
    /\ gpc[c].at = "deleted"
    /\ IF \E id \in VehicleIds : vehicles[id] = "primary"
       THEN /\ gpc' = [gpc EXCEPT ![c] = NoVehicleRequest]
            /\ gresp' = 200
       ELSE /\ gpc' = At(c, "noPrimary")
            /\ gresp' = 0
    /\ UNCHANGED vehicles
    /\ UNCHANGED <<catalogVars, statVars, compareVars, normVars, assessVars, quotesVars, analyzeVars, inspectVars, chatVars>>

\* DELETE /:id: newest = await Vehicle.findOne({userId}).sort({updatedAt: -1, ...});
\* which document is the newest is not tracked: any of them
DeleteFindNewest(c) ==
    /\ gpc[c].at = "noPrimary"
    /\ IF \E id \in VehicleIds : Exists(id)
       THEN /\ \E id \in VehicleIds :
                  /\ Exists(id)
                  /\ gpc' = [gpc EXCEPT ![c] = [at |-> "newest", id |-> id, flag |-> "true",
                                                 loaded |-> vehicles[id] = "primary"]]
            /\ gresp' = 0
       ELSE /\ gpc' = [gpc EXCEPT ![c] = NoVehicleRequest]
            /\ gresp' = 200
    /\ UNCHANGED vehicles
    /\ UNCHANGED <<catalogVars, statVars, compareVars, normVars, assessVars, quotesVars, analyzeVars, inspectVars, chatVars>>

\* DELETE /:id: newest.isPrimary = true; await newest.save()
DeleteSaveNewest(c) ==
    /\ gpc[c].at = "newest"
    /\ vehicles' = Saved(gpc[c].id, gpc[c].loaded, TRUE)
    /\ gresp' = IF Exists(gpc[c].id) THEN 200 ELSE 500
    /\ gpc' = [gpc EXCEPT ![c] = NoVehicleRequest]
    /\ UNCHANGED <<catalogVars, statVars, compareVars, normVars, assessVars, quotesVars, analyzeVars, inspectVars, chatVars>>

InitVehicles ==
    /\ IdleCatalog
    /\ IdleStats
    /\ IdleCompare
    /\ IdleNormalize
    /\ IdleRoutes

\* the vehicle requests of one user; their awaits interleave
NextVehicles ==
    \/ \E c \in Callers, p \in BOOLEAN : CreateCount(c, p)
    \/ \E c \in Callers : CreateDemote(c)
    \/ \E c \in Callers : CreateInsert(c)
    \/ \E c \in Callers, op \in {"patch", "set-primary"}, id \in VehicleIds,
          flag \in {"true", "false", "absent"} : FindVehicle(c, op, id, flag)
    \/ \E c \in Callers : DemoteOthers(c)
    \/ \E c \in Callers : SaveVehicle(c)
    \/ \E c \in Callers, id \in VehicleIds : DeleteOne(c, id)
    \/ \E c \in Callers : DeleteAnyPrimary(c)
    \/ \E c \in Callers : DeleteFindNewest(c)
    \/ \E c \in Callers : DeleteSaveNewest(c)

SpecVehicles == InitVehicles /\ [][NextVehicles]_vars

(* ------------------- the two normalizers on their own ----------------- *)
Words == {"Oil", "BRAKE", " rotor", " ", "?!", "Air ", "filter", "_", "x9", "Tyre", "ty re"}

\* every concatenation of up to n words
RECURSIVE LabelsUpTo(_)
LabelsUpTo(n) ==
    IF n = 0 THEN {""}
    ELSE LET shorter == LabelsUpTo(n - 1)
         IN  shorter \cup {l \o w : l \in shorter, w \in Words}

Normalizers == {"inspections", "pricingCatalog"}

normalizeWith(v, raw) ==
    IF v = "inspections" THEN normalizeServiceKey(raw) ELSE pricingNormalizeServiceKey(raw)

InitNormalize ==
    /\ IdleCatalog
    /\ IdleStats
    /\ IdleCompare
    /\ IdleRoutes
    /\ rawLabel \in LabelsUpTo(MaxWords) \cup TableKeys
    /\ nver = "none"
    /\ nkeys = <<>>

\* normalizeServiceKey(label) of one of the two route files
NormalizeLabel(v) ==
    /\ nver = "none"
    /\ nver' = v
    /\ nkeys' = <<normalizeWith(v, rawLabel)>>
    /\ UNCHANGED <<catalogVars, statVars, compareVars, rawLabel, assessVars, quotesVars, analyzeVars, inspectVars, chatVars, vehicleVars>>

\* the same function applied to its own result (upsertCatalogQuote and
\* getCatalogRateForKey are handed keys their callers normalized already)
NormalizeAgain ==
    /\ Len(nkeys) = 1
    /\ nkeys' = Append(nkeys, normalizeWith(nver, nkeys[1]))
    /\ UNCHANGED <<catalogVars, statVars, compareVars, rawLabel, nver, assessVars, quotesVars, analyzeVars, inspectVars, chatVars, vehicleVars>>

NextNormalize ==
    \/ \E v \in Normalizers : NormalizeLabel(v)
    \/ NormalizeAgain

SpecNormalize == InitNormalize /\ [][NextNormalize]_vars

(* ---------------- quotes recorded one call after another -------------- *)
SequentialPrices == {100, 101}
AiDecisions == {"fair", "overpriced"}

\* doc.appendAiAssessedQuote({price, aiDecision}): push on the in-memory
\* document, recomputeRollups, save
appendAiAssessedQuote(doc, price, aiDecision) ==
    recomputeRollups([doc EXCEPT
        !.userQuotes = Append(@, [price |-> price, aiDecision |-> aiDecision])])

\* a caller loads the entry and appends an assessed quote while no other
\* call is in progress: the saved document is the loaded one plus the quote
AppendAiAssessedQuote(price, aiDecision) ==
    /\ \A c \in Callers : pc[c] = "idle"
    /\ catalogLoaded
    /\ db.exists
    /\ Len(db.userQuotes) < MaxQuotes
    /\ db' = appendAiAssessedQuote(db, price, aiDecision)
    /\ ignored' = FALSE
    /\ rate' = NoRate
    /\ UNCHANGED <<catalogLoaded, pc, snap, submitted, statVars, compareVars, normVars, assessVars, quotesVars, analyzeVars, inspectVars, chatVars, vehicleVars>>

\* one caller: each call returns before the next one starts
NextSequential ==
    \/ \E k \in WriterKeys, p \in InputPrices : UpsertIgnored(1, k, p)
    \/ \E k \in WriterKeys, p \in SequentialPrices : UpsertFindOneAndUpdate(1, k, p)
    \/ UpsertSave(1)
    \/ \E p \in SequentialPrices, d \in AiDecisions : AppendAiAssessedQuote(p, d)

SpecSequential == Init /\ [][NextSequential]_vars

(* ============================== claims ================================ *)
AllIdle == \A c \in Callers : pc[c] = "idle"

\* the k-th smallest element (k from 0) of a list, by counting: it has at
\* most k elements below it and more than k elements not above it
Below(list, v)    == Cardinality({i \in 1..Len(list) : list[i] < v})
NotAbove(list, v) == Cardinality({i \in 1..Len(list) : list[i] <= v})
OrderStat(list, k) ==
    CHOOSE v \in {list[i] : i \in 1..Len(list)} : Below(list, v) <= k /\ k < NotAbove(list, v)

\* v is v4 (quarter units) rounded to the nearest whole number, ties up
IsRounded(v, v4) == 4 * v <= v4 + 2 /\ v4 + 2 < 4 * v + 4

\* the stored entry a resolve for the raw key reads
EntryFor(rawKey) == IF NormalizedKey[rawKey] = EntryKey THEN db ELSE NoDoc

C2_RollupsMatchWhenIdle ==
    (AllIdle /\ db.exists /\ Len(db.userQuotes) > 0) => db = recomputeRollups(db)

(* C3: in every state a reader can observe, also between the storage steps *)
(* of a call in progress, quotesCount = list length and the three decision *)
(* counts sum to the list length.                                          *)
C3_RollupsMatchAlways ==
    /\ db.quotesCount = Len(db.userQuotes)
    /\ db.fairCount + db.overpricedCount + db.unknownCount = Len(db.userQuotes)

(* C7 as stated: the source is catalog:user_quotes with {avg, min, max} =  *)
(* {median, p25, p75} exactly when the entry has 5 or more quotes, else    *)
(* catalog:base_range with avg = midpoint exactly when the entry has a     *)
(* baseline, else heuristic.                                               *)
C7_AsStated ==
    rate.source # "none" =>
        LET doc    == EntryFor(rate.reqKey)
            prices == PricesOf(doc)
            crowd  == doc.exists /\ Len(prices) >= 5
            base   == doc.exists /\ ~crowd /\ doc.baseRange.present
        IN  /\ (rate.source = "catalog:user_quotes") <=> crowd
            /\ (rate.source = "catalog:base_range") <=> base
            /\ (rate.source = "heuristic") <=> (~crowd /\ ~base)
            /\ crowd => /\ 4 * rate.avgPrice = median(prices)
                        /\ 4 * rate.rangeMin = quantile(prices, 1)
                        /\ 4 * rate.rangeMax = quantile(prices, 3)
            /\ base => 2 * rate.avgPrice = doc.baseRange.min + doc.baseRange.max

(* C7 amended: with the catalog model loaded and the lookup succeeding,    *)
(* the source is catalog:user_quotes exactly when the entry has 5 or more  *)
(* quotes, and then avg / min / max are the median / p25 / p75 rounded to  *)
(* the nearest whole number; else catalog:base_range exactly when the      *)
(* entry has a baseline, with avg the rounded midpoint and min / max the   *)
(* baseline bounds; else heuristic with the table entry.  With the model   *)
(* not loaded or the lookup failing the source is heuristic.               *)
C7_ResolutionOrder ==
    rate.source # "none" =>
        LET doc    == EntryFor(rate.reqKey)
            prices == PricesOf(doc)
            n      == Len(prices)
            usable == catalogLoaded /\ ~rate.lookupFailed /\ doc.exists
            crowd  == usable /\ n >= 5
            base   == usable /\ ~crowd /\ doc.baseRange.present
            midOdd == OrderStat(prices, n \div 2)
        IN  /\ (rate.source = "catalog:user_quotes") <=> crowd
            /\ (rate.source = "catalog:base_range") <=> base
            /\ (rate.source = "heuristic") <=> (~crowd /\ ~base)
            /\ crowd =>
                 /\ IsRounded(rate.avgPrice,
                              IF n % 2 = 1 THEN 4 * midOdd
                              ELSE 2 * (OrderStat(prices, n \div 2 - 1) + midOdd))
                 /\ IsRounded(rate.rangeMin, quantile(prices, 1))
                 /\ IsRounded(rate.rangeMax, quantile(prices, 3))
                 /\ rate.quotesCount = n
            /\ base =>
                 /\ IsRounded(rate.avgPrice, 2 * (doc.baseRange.min + doc.baseRange.max))
                 /\ rate.rangeMin = doc.baseRange.min
                 /\ rate.rangeMax = doc.baseRange.max
            /\ (~crowd /\ ~base) =>
                 /\ rate.avgPrice = HeuristicRow(rate.key).avg
                 /\ rate.rangeMin = HeuristicRow(rate.key).min
                 /\ rate.rangeMax = HeuristicRow(rate.key).max

\* the crowd tier was chosen for an entry that also holds a baseline
C7_Witness ==
    /\ rate.source = "catalog:user_quotes"
    /\ db.baseRange.present
    /\ Len(db.userQuotes) >= 5

(* C8: resolve never raises and returns a currency and avgPrice > 0 for    *)
(* every key and catalog state: entry absent, fewer than 5 quotes and no   *)
(* baseline, any stored baseline, model not loaded, lookup failing.        *)
C8_PositiveRate ==
    rate.source # "none" =>
        /\ ~rate.raised
        /\ rate.currency # ""
        /\ rate.avgPrice # NaN /\ rate.avgPrice > 0

(* C9: with fewer than 5 quotes in the entry resolve never reports         *)
(* catalog:user_quotes, and when it reports that source the band is        *)
(* ordered: rangeMin <= avgPrice <= rangeMax.                              *)
C9_CrowdGate ==
    /\ (rate.source # "none" /\ Len(EntryFor(rate.reqKey).userQuotes) < 5)
           => rate.source # "catalog:user_quotes"
    /\ rate.source = "catalog:user_quotes"
           => rate.rangeMin <= rate.avgPrice /\ rate.avgPrice <= rate.rangeMax

\* a band of positive width reported from five or more quotes
C9_Witness ==
    /\ rate.source = "catalog:user_quotes"
    /\ Len(db.userQuotes) >= 5
    /\ rate.rangeMin < rate.rangeMax

(* C10: for a non-empty list, median is the central element of the sorted  *)
(* list (odd length) or the mean of the two central ones (even length);    *)
(* quantile(q) interpolates linearly at index (n-1)*q between the sorted   *)
(* elements around it; [100,120,110,90,130] in any order gives median 110, *)
(* p25 100, p75 120.                                                       *)
C10_MedianQuantile ==
    (stat.computed /\ Len(nums) > 0) =>
        LET n   == Len(nums)
            mid == n \div 2
        IN  /\ stat.median = IF n % 2 = 1 THEN 4 * OrderStat(nums, mid)
                             ELSE 2 * (OrderStat(nums, mid - 1) + OrderStat(nums, mid))
            /\ \A qn \in 0..4 :
                 LET floor == ((n - 1) * qn) \div 4
                     frac4 == ((n - 1) * qn) % 4
                     lo    == OrderStat(nums, floor)
                     hi    == IF floor + 1 < n THEN OrderStat(nums, floor + 1) ELSE lo
                 IN  stat.q[qn] = 4 * lo + frac4 * (hi - lo)
            /\ (n = 5 /\ {nums[i] : i \in 1..n} = {90, 100, 110, 120, 130})
                 => /\ stat.median = 4 * 110
                    /\ stat.q[1] = 4 * 100
                    /\ stat.q[3] = 4 * 120

\* the example of the specification, in the order it gives
C10_Witness ==
    /\ stat.computed
    /\ nums = <<100, 120, 110, 90, 130>>
    /\ stat.median = 440 /\ stat.q[1] = 400 /\ stat.q[3] = 480

\* the request passed the field checks of compare
PassedValidation ==
    req.make # "" /\ req.model # "" /\ req.year # Null /\ Len(req.items) > 0

(* C4: a compare request that passes validation, handled with no AI        *)
(* credential configured, is answered with status 503 and no rows, never   *)
(* with a success response carrying verdict rows, whatever its items are.  *)
C4_UnconfiguredIs503 ==
    (cpc = "done" /\ PassedValidation /\ ~genAI) =>
        /\ resp.status = 503
        /\ resp.rows = <<>>

(* C5: when the AI client reports the invalid-response condition (502) for *)
(* a line item, compare still ends in a success response with a row for   *)
(* each item, the failed item's row carrying verdict unknown and a note.   *)
C5_InvalidItemIsolated ==
    (cpc = "done" /\ lastAssess.kind = "error" /\ lastAssess.status = 502) =>
        /\ resp.status = 200
        /\ Len(resp.rows) = Len(req.items)
        /\ \E i \in 1..Len(resp.rows) : resp.rows[i].verdict = "unknown" /\ resp.rows[i].note

(* C6: every failure of assess carries status 503 or 502: 503 exactly when *)
(* no credential is configured, 502 for every other failure, a provider    *)
(* call that throws or times out included.                                 *)
C6_FailuresClassified ==
    lastAssess.kind = "error" =>
        /\ lastAssess.status \in {502, 503}
        /\ (lastAssess.status = 503) <=> ~genAI

(* C11: after every completed recordQuote, in any sequence of calls that   *)
(* do not overlap, the rollups are the function of the quote list:         *)
(* quotesCount = list length, avgUserPrice = mean of the listed prices     *)
(* rounded to two decimals, and each decision count = number of quotes     *)
(* with that decision, the three counts summing to quotesCount.            *)
C11_RollupsAfterEachCall ==
    (AllIdle /\ db.exists /\ Len(db.userQuotes) > 0) =>
        LET quotes == db.userQuotes
            n      == Len(quotes)
            sum    == SumSeq(PricesOf(db))
            count(d) == Cardinality({i \in 1..n : quotes[i].aiDecision = d})
        IN  /\ db.quotesCount = n
            /\ 2 * n * db.avgUserPrice - n <= 200 * sum
            /\ 200 * sum < 2 * n * db.avgUserPrice + n
            /\ db.fairCount = count("fair")
            /\ db.overpricedCount = count("overpriced")
            /\ db.unknownCount = count("unknown")
            /\ db.fairCount + db.overpricedCount + db.unknownCount = db.quotesCount

\* three calls completed, one quote of each decision, and a mean that is
\* not a whole number of hundredths before rounding
C11_Witness ==
    /\ AllIdle
    /\ Len(db.userQuotes) = 3
    /\ Len(submitted) >= 1
    /\ db.avgUserPrice = 10033
    /\ db.fairCount = 1 /\ db.overpricedCount = 1 /\ db.unknownCount = 1

\* the first step of upsertCatalogQuote(rawKey, price) by caller c
RecordQuoteEntered(c, rawKey, price) ==
    \/ UpsertIgnored(c, rawKey, price)
    \/ UpsertFindOneAndUpdate(c, rawKey, price)

(* C12: recordQuote called with a price that is zero, negative or not a    *)
(* finite number, or with a key that normalizes to the empty string,       *)
(* changes nothing: no entry created, no quote appended, no rollup         *)
(* changed, and the call has returned (nothing is left in progress).       *)
C12_InvalidQuoteIsNoOp ==
    [][\A c \in Callers, k \in WriterKeys, p \in InputPrices :
          (RecordQuoteEntered(c, k, p) /\ (p = NaN \/ p <= 0 \/ NormalizedKey[k] = ""))
              => /\ db' = db
                 /\ submitted' = submitted
                 /\ pc' = pc /\ pc[c] = "idle"]_vars

\* a call was ignored for its arguments (the model is loaded) on an entry
\* that holds a quote, and the entry still has that one quote and its rollups
C12_Witness ==
    /\ ignored
    /\ catalogLoaded
    /\ Len(db.userQuotes) = 1
    /\ db.quotesCount = 1 /\ db.unknownCount = 1

\* the members of the object the provider text parses to (directly, or
\* from its first "{" to its last "}")
ProvidedMembers(text) ==
    IF JSONParse(text).ok THEN JSONParse(text).members
    ELSE tryExtractJsonBlock(text).members

\* the decision tokens and the decision each one expresses
ExpressedDecision(tok) ==
    CASE tok \in {"d:fair", "d:FAIR"} -> "fair"
      [] tok = "d:overpriced"         -> "overpriced"
      [] tok = "d:Unknown"            -> "unknown"
      [] OTHER                        -> "unknown"

\* the last token of the list that starts with the prefix, "" when none
LastToken(members, prefix) ==
    LET at == {i \in 1..Len(members) : SubSeq(members[i], 1, 2) = prefix}
    IN  IF at = {} THEN "" ELSE members[CHOOSE i \in at : \A j \in at : j <= i]

(* C13: for every provider output that parses to an object, the Assessment *)
(* has decision = the provider's decision lower-cased when that is fair /  *)
(* overpriced / unknown and "unknown" otherwise (missing or not a string   *)
(* included), confidence = the provider's number clamped into [0,1] (0     *)
(* when missing or not a number), and a range, when present, in the        *)
(* working currency; decision "FAIR" with confidence 1.4 gives fair, 1.0.  *)
C13_AssessmentCoerced ==
    lastAssess.kind = "ok" =>
        LET members == ProvidedMembers(lastAssess.raw)
            c       == LastToken(members, "c:")
        IN  /\ lastAssess.decision = ExpressedDecision(LastToken(members, "d:"))
            /\ lastAssess.confidence =
                  (CASE c = "c:1.4"  -> 100
                     [] c = "c:0.5"  -> 50
                     [] c = "c:-0.3" -> 0
                     [] OTHER        -> 0)
            /\ lastAssess.hasRange => lastAssess.rangeCurrency = DEFAULT_CURRENCY
            /\ lastAssess.hasRange <=> LastToken(members, "r:") \in {"r:EUR", "r:{}"}

\* the example: {"decision": "FAIR", "confidence": 1.4}
C13_Witness ==
    /\ lastAssess.kind = "ok"
    /\ lastAssess.raw = <<"{", "d:FAIR", "c:1.4", "}">>
    /\ lastAssess.decision = "fair"
    /\ lastAssess.confidence = 100

\* a range stated in another currency comes back in the working currency
C13_WitnessRange ==
    /\ lastAssess.kind = "ok"
    /\ LastToken(ProvidedMembers(lastAssess.raw), "r:") = "r:EUR"
    /\ lastAssess.rangeCurrency = "USD"

(* C14: normalize returns a non-empty key for every input string, the     *)
(* empty string and strings made only of spaces or punctuation included.   *)
C14_KeyNeverEmpty ==
    Len(nkeys) >= 1 => nkeys[1] # ""

(* C15: every label that contains both "brake" and "rotor" and not "oil"  *)
(* normalizes to rotors, never to brake_pads, with the normalizer of every *)
(* component: comparison (pricingCatalog), resolver and writer             *)
(* (inspections).                                                          *)
C15_BrakeRotorIsRotors ==
    Len(nkeys) >= 1 =>
        LET s == toLowerCase(rawLabel)
        IN  (Includes(s, "brake") /\ Includes(s, "rotor") /\ ~Includes(s, "oil"))
                => nkeys[1] = "rotors"

(* C16: normalize is idempotent: normalize(normalize(x)) = normalize(x)    *)
(* for every input x; each of the eleven canonical keys maps to itself,    *)
(* and a slug produced by the fallback rule maps to itself.                *)
C16_Idempotent ==
    /\ Len(nkeys) = 2 => nkeys[2] = nkeys[1]
    /\ (Len(nkeys) >= 1 /\ rawLabel \in TableKeys) => nkeys[1] = rawLabel

\* a label that only the fallback rule handles, with a run of other
\* characters between letters, normalized twice
C16_Witness ==
    /\ rawLabel = "ty re?!"
    /\ nkeys = <<"ty_re_", "ty_re_">>

\* the compare request is bad input in the sense of the claim
NonPositivePrice(it) == it.price # Null /\ it.price # NaN /\ it.price <= 0
BadCompareInput ==
    \/ req.make = "" \/ req.model = "" \/ req.year = Null
    \/ Len(req.items) = 0
    \/ \E i \in 1..Len(req.items) : NonPositivePrice(req.items[i])

(* C17: a compare request with a missing vehicle make, model or year, an   *)
(* empty item list, or a line item whose price is zero or negative is      *)
(* rejected (400) before any AI call is made and with no rows produced.    *)
C17_BadInputRejected ==
    (cpc # "idle" /\ BadCompareInput) =>
        /\ lastAssess = NoAssess
        /\ results = <<>>
        /\ cpc = "done" => (resp.status = 400 /\ resp.rows = <<>>)

(* C18: a persistence failure in the learning / persist step does not      *)
(* change the response of the primary path: when the AI assessment         *)
(* succeeded, assess-quote answers with that Assessment also when saving   *)
(* the sample fails, and POST /quotes answers with its saved quote also    *)
(* when the catalog upsert fails.                                          *)
C18_PersistFailureHidden ==
    /\ (apc = "done" /\ lastAssess.kind = "ok") =>
           /\ aresp.status = 200
           /\ aresp.success
           /\ aresp.decision = lastAssess.decision
    /\ (qpc = "done" /\ inspections > 0) =>
           /\ qresp.status = 200
           /\ qresp.saved

(* C19: fallbackVerdict never raises, and when an internal error occurs    *)
(* while it classifies the items its result is all-questionable: the       *)
(* explanatory questionable note and no overpriced or fair entry, also for *)
(* items classified before the error.                                      *)
C19_ErrorIsAllQuestionable ==
    (vresp.fallback /\ vresp.gemini.caught) =>
        /\ vresp.gemini.questionable_notes = <<ErrorNote>>
        /\ vresp.gemini.overpriced_notes = <<>>
        /\ vresp.gemini.fair_notes = <<>>

(* C20: quote-analyze answers with the heuristic-only verdict, not with an *)
(* error status, whenever the AI path cannot produce a verdict: credential *)
(* not configured, the provider call failing, or another error while the   *)
(* AI request is built or run.                                             *)
C20_FallbackWheneverNoAi ==
    (vpc = "done" /\ (~GEMINI_API_KEY \/ vresp.via \in {"outer catch", "generateContent catch"}))
        => /\ vresp.status = 200
           /\ vresp.fallback
           /\ vresp.gemini.negotiation_tips = 2 \/ vresp.gemini.caught

(* C21: for every successful compare the result rows match the input line  *)
(* items one-to-one and in input order: row i echoes line item i, no line  *)
(* item is dropped and no row is reordered.                                *)
C21_RowsMatchItems ==
    (cpc = "done" /\ resp.status = 200) =>
        /\ Len(resp.rows) = Len(req.items)
        /\ \A i \in 1..Len(resp.rows) :
              /\ resp.rows[i].label = req.items[i].label
              /\ resp.rows[i].qty = QtyOf(req.items[i])
              /\ resp.rows[i].unitPrice = UnitOf(req.items[i])

(* C22: for every key and every catalog state, the rate GET /prices/:key   *)
(* reports equals the rate getCatalogRateForKey returns for the same key   *)
(* and the same stored entry: same source tier, same avgPrice, rangeMin    *)
(* and rangeMax; an entry with fewer than 5 quotes and no baseline range   *)
(* gives the heuristic rate in both.                                       *)
C22_InspectionEqualsResolve ==
    inspected.status # 0 =>
        LET r == getCatalogRateForKey(inspected.reqKey, catalogLoaded, inspected.raw,
                                      inspected.lookupFailed)
        IN  /\ inspected.status = 200
            /\ inspected.source = r.source
            /\ inspected.avgPrice100 = 100 * r.avgPrice
            /\ inspected.rangeMin = r.rangeMin
            /\ inspected.rangeMax = r.rangeMax

IsPrefix(s, t) == Len(s) <= Len(t) /\ SubSeq(t, 1, Len(s)) = s

(* C23: the quote log of a catalog entry is append-only: every operation   *)
(* leaves the previous quote list as a prefix of the new one (a stored     *)
(* quote keeps its place, price and decision), and an entry that exists    *)
(* is never deleted.                                                       *)
C23_LogAppendOnly ==
    [][/\ IsPrefix(db.userQuotes, db'.userQuotes)
       /\ db.exists => db'.exists]_vars

\* an entry created by a first quote, holding quotes of both writers, the
\* oldest the one upsertCatalogQuote first stored
C23_Witness ==
    /\ db.exists
    /\ db.currency = "PKR"
    /\ Len(db.userQuotes) >= 4
    /\ Len(submitted) >= 2
    /\ db.userQuotes[1] = NewQuote(submitted[1])
    /\ \E i \in 2..Len(db.userQuotes) : db.userQuotes[i].aiDecision = "fair"
    /\ db.userQuotes[Len(db.userQuotes)] = NewQuote(submitted[Len(submitted)])
    /\ AllIdle

(* C24: when the first provider attempt of an assess call returns empty or *)
(* malformed output, the AI client makes exactly one further attempt       *)
(* before the invalid-response condition is reported; no assess call makes *)
(* more than two provider attempts, and a successful attempt ends the      *)
(* sequence.                                                               *)
C24_RetriedOnce ==
    /\ lastAssess.attempts <= 2
    /\ (lastAssess.kind = "error" /\ lastAssess.provider = "text") => lastAssess.attempts = 2

\* what the text from its first "{" to its last "}" parses to
OutermostObject(text) ==
    LET start == IndexOf(text, "{")
        end   == LastIndexOf(text, "}")
    IN  IF start >= 1 /\ end > start THEN JSONParse(SubSeq(text, start, end)) ELSE NoValue

(* C25: assess decodes provider output in two stages, strict JSON parse    *)
(* first and, only if that fails, the text from the first "{" to the last  *)
(* "}" parsed as JSON; it reports the invalid-response condition if and    *)
(* only if neither stage yields a JSON object, and whenever the text       *)
(* contains a well-formed outermost object with a decision field, the      *)
(* Assessment is built from that object.                                   *)
C25_TwoStageDecode ==
    lastAssess.provider = "text" =>
        LET raw    == lastAssess.raw
            strict == JSONParse(raw)
            second == IF strict.ok THEN NoValue ELSE tryExtractJsonBlock(raw)
            o      == OutermostObject(raw)
        IN  /\ (lastAssess.kind = "error" /\ lastAssess.status = 502)
                  <=> ~(strict.kind = "object" \/ second.kind = "object")
            /\ (o.kind = "object" /\ Property(o.members, "decision").type # "undefined")
                  => /\ lastAssess.kind = "ok"
                     /\ lastAssess.decision = ExpressedDecision(LastToken(o.members, "d:"))

(* C26: for every line item of a compare request, the total echoed in its  *)
(* row (the amount sent to the AI client) equals quantity x unit price,    *)
(* the quantity being the item's quantity raised to at least 1 (default    *)
(* 1); no other field of the request changes the total.                    *)
C26_TotalIsQtyTimesUnit ==
    \A i \in 1..Len(results) :
        /\ results[i].total = Times(results[i].qty, results[i].unitPrice)
        /\ results[i].qty = NaN \/ results[i].qty >= 1

\* the bucket the comparison with the matching rate's avgPrice asks for
\* (totals and prices are whole numbers: 10 * total > 12 * avg is
\* total > 120% of avg)
HasNumericRate(it, rates) ==
    \E j \in 1..Len(rates) :
        rates[j].kind = "object" /\ VerdictKey[rates[j].key] = VerdictKey[it.label]
                                 /\ rates[j].avgPrice # Null

ExpectedBucket(it, rates) ==
    IF ~HasNumericRate(it, rates) THEN "questionable"
    ELSE LET j == CHOOSE j \in 1..Len(rates) :
                      VerdictKey[rates[j].key] = VerdictKey[it.label]
             total == (IF it.qty = Null THEN 1 ELSE it.qty) * it.price
         IN  IF it.qty # NaN /\ 100 * total > 120 * rates[j].avgPrice
             THEN "overpriced" ELSE "fair"

\* the labels of the items of a bucket, in input order
RECURSIVE LabelsOfBucket(_, _, _)
LabelsOfBucket(items, rates, bucket) ==
    IF Len(items) = 0 THEN <<>>
    ELSE (IF ExpectedBucket(Head(items), rates) = bucket THEN <<Head(items).label>> ELSE <<>>)
             \o LabelsOfBucket(Tail(items), rates, bucket)

NoteLabels(notes) == [i \in 1..Len(notes) |-> notes[i].label]

(* C27: when it runs without internal error, the heuristic-only verdict    *)
(* generator puts every line item into exactly one of the buckets          *)
(* overpriced / fair / questionable: overpriced if and only if             *)
(* total = qty x price is above 120% of the matching rate's avgPrice, fair *)
(* otherwise when a rate with a numeric avgPrice matches (within 80%..120% *)
(* included), questionable when no such rate matches; the three buckets    *)
(* hold as many notes as there are items.                                  *)
C27_ExactlyOneBucket ==
    (vresp.fallback /\ ~vresp.gemini.caught) =>
        LET v == vresp.gemini
        IN  /\ NoteLabels(v.overpriced_notes)
                  = LabelsOfBucket(vreq.items, vreq.marketRates, "overpriced")
            /\ NoteLabels(v.fair_notes)
                  = LabelsOfBucket(vreq.items, vreq.marketRates, "fair")
            /\ NoteLabels(v.questionable_notes)
                  = LabelsOfBucket(vreq.items, vreq.marketRates, "questionable")
            /\ Len(v.overpriced_notes) + Len(v.fair_notes) + Len(v.questionable_notes)
                  = Len(vreq.items)

\* a total of exactly 120% of avgPrice 55 is fair, one unit more is overpriced
C27_Witness ==
    /\ vresp.fallback /\ ~vresp.gemini.caught
    /\ vreq.marketRates = <<[kind |-> "object", key |-> "oil_change", avgPrice |-> 55]>>
    /\ vreq.items = <<AnalyzeItem("object", "Oil change", Null, 66),
                      AnalyzeItem("object", "Oil change", Null, 67)>>
    /\ Len(vresp.gemini.fair_notes) = 1
    /\ Len(vresp.gemini.overpriced_notes) = 1
    /\ vresp.gemini.questionable_notes = <<>>

\* the value at index (n-1) * qn/4 of the sorted list, linearly interpolated,
\* in quarter units
BandAt(list, qn) ==
    LET pos4 == (Len(list) - 1) * qn
        lo   == pos4 \div 4
        fr   == pos4 % 4
    IN  IF fr = 0 THEN 4 * OrderStat(list, lo)
        ELSE 4 * OrderStat(list, lo) + fr * (OrderStat(list, lo + 1) - OrderStat(list, lo))

\* a resolve for the entry's key has just returned, after a completed
\* recordQuote, with no call in progress and n >= 5 quotes in the entry
ResolvedAfterRecord ==
    /\ rate.source # "none"
    /\ NormalizedKey[rate.reqKey] = EntryKey
    /\ AllIdle
    /\ Len(submitted) >= 1
    /\ Len(db.userQuotes) >= 5

ReflectsAllQuotes ==
    /\ rate.source = "catalog:user_quotes"
    /\ rate.quotesCount = Len(db.userQuotes)
    /\ db.userQuotes[Len(db.userQuotes)].price = submitted[Len(submitted)]
    /\ IsRounded(rate.avgPrice, BandAt(PricesOf(db), 2))
    /\ IsRounded(rate.rangeMin, BandAt(PricesOf(db), 1))
    /\ IsRounded(rate.rangeMax, BandAt(PricesOf(db), 3))

(* C28 as stated: after a recordQuote with a valid price for key k has     *)
(* completed and the entry holds n >= 5 quotes, the next resolve for k (or *)
(* a label normalizing to k) reports source "catalog:user_quotes",         *)
(* quotesCount = n and the median / p25 / p75 band over all n prices, the  *)
(* one just recorded included.                                             *)
C28_AsStated == ResolvedAfterRecord => ReflectsAllQuotes

(* C28: the same, for a resolve whose catalog lookup succeeds.             *)
C28_RoundTrip == (ResolvedAfterRecord /\ ~rate.lookupFailed) => ReflectsAllQuotes

\* the fifth quote moves the median: 100, 100, 103, 103 has median 101.5
C28_Witness ==
    /\ ResolvedAfterRecord
    /\ ~rate.lookupFailed
    /\ rate.reqKey = "Oil change"
    /\ submitted = <<100, 100, 103, 103, 103>>
    /\ PricesOf(db) = submitted
    /\ rate.source = "catalog:user_quotes"
    /\ rate.quotesCount = 5
    /\ rate.avgPrice = 103

NoSendInProgress == \A c \in Callers : mpc[c].at = "idle"

(* C29: within one chat session, message indexes are unique and gap-free   *)
(* in creation order: the k-th stored message has index k-1, and once no   *)
(* send request is in progress each user message is immediately followed   *)
(* by its assistant reply at the next index; also when two send requests   *)
(* for the session interleave.                                             *)
C29_IndexesGapFree ==
    /\ \A k \in 1..Len(messages) : messages[k].index = k - 1
    /\ NoSendInProgress =>
          \A k \in 1..Len(messages) :
              messages[k].role = "user" =>
                  /\ k < Len(messages)
                  /\ messages[k + 1] = Message("assistant", messages[k].index + 1, messages[k].by)

NoVehicleRequestInProgress == \A c \in Callers : gpc[c].at = "idle"

(* C30: for each user, at most one vehicle has isPrimary = true whenever   *)
(* no vehicle request of that user is in progress, after any sequence and  *)
(* any interleaving of the user's create, patch, set-primary and delete    *)
(* requests, two overlapping create or set-primary requests included.      *)
C30_AtMostOnePrimary ==
    NoVehicleRequestInProgress =>
        Cardinality({id \in VehicleIds : vehicles[id] = "primary"}) <= 1

====
